---------------------------- MODULE Spec2Model ----------------------------
(***************************************************************************)
(* A model of PicTransfer: importpics.py (copy planning, the copy ledger,  *)
(* the copy executor) and diskutil.py (alt_folder, human_readable).        *)
(*                                                                         *)
(* Text is a sequence of characters.  A character is a one-token string:   *)
(* "/", ".", "_", " ", "\n", the digits, and tokens such as "a" or "jpg"   *)
(* that stand for a run of ordinary (non-separator, non-blank) characters. *)
(***************************************************************************)
EXTENDS Integers, Sequences, FiniteSets, TLC

VARIABLES
    disk,      \* the file system: a set of entries [path, kind, size, data]
    cwd,       \* the process's current working directory (a path)
    ledger,    \* the copy-log folder: [exists, entries], an entry is [name, kind, text]
    copylog,   \* the run's CopyLog object
    call,      \* the last call of a function under test: its arguments and result
    pc,        \* where the import run stands: [at, i, run, exit]
    plan,      \* the run's CopyPlan
    metrics,   \* the run's Metrics
    groups,    \* the run's FileGroups, in the order of the dict that holds them
    hist       \* history: what earlier steps and runs did (not program state)

(***************************************************************************)
(* Bounds of the model.                                                    *)
(***************************************************************************)
MaxDirs == 2        \* entries created on disk in the alt_folder scenarios

(***************************************************************************)
(* Python str helpers.                                                     *)
(***************************************************************************)
\* the characters str.strip() removes that occur in the model's alphabet
Whitespace == {" ", "\n", "\t"}

RECURSIVE RStripChars(_, _)
\* str.rstrip(chars)
RStripChars(s, cs) ==
    IF s = <<>> THEN s
    ELSE IF s[Len(s)] \in cs THEN RStripChars(SubSeq(s, 1, Len(s) - 1), cs)
    ELSE s

RECURSIVE LStripChars(_, _)
\* str.lstrip(chars)
LStripChars(s, cs) ==
    IF s = <<>> THEN s
    ELSE IF s[1] \in cs THEN LStripChars(Tail(s), cs)
    ELSE s

\* str.strip()
Strip(s) == LStripChars(RStripChars(s, Whitespace), Whitespace)

DigitChar(k) == <<"0", "1", "2", "3", "4", "5", "6", "7", "8", "9">>[k + 1]

RECURSIVE StrInt(_)
\* str(n) for n >= 0
StrInt(n) ==
    IF n < 10 THEN <<DigitChar(n)>>
    ELSE StrInt(n \div 10) \o <<DigitChar(n % 10)>>

RECURSIVE ZFill(_, _)
\* str.zfill(width) of an unsigned numeral
ZFill(s, width) ==
    IF Len(s) >= width THEN s ELSE ZFill(<<"0">> \o s, width)

RECURSIVE Pow10(_)
\* int(math.pow(10, digits)), exact for the small exponents of the model
Pow10(d) == IF d <= 0 THEN 1 ELSE 10 * Pow10(d - 1)

(***************************************************************************)
(* os.path and the file system.                                            *)
(***************************************************************************)
\* os.path.join(a, b) for a relative b
Join(a, b) ==
    IF a = <<>> THEN b
    ELSE IF a[Len(a)] = "/" THEN a \o b
    ELSE a \o <<"/">> \o b

\* a relative path is resolved against the current working directory
AbsPath(c, p) == IF p # <<>> /\ p[1] = "/" THEN p ELSE Join(c, p)

Exists(dsk, c, p) == \E e \in dsk : e.path = AbsPath(c, p)

\* os.path.isdir
IsDir(dsk, c, p) == \E e \in dsk : e.path = AbsPath(c, p) /\ e.kind = "dir"

\* os.path.isfile
IsFile(dsk, c, p) == \E e \in dsk : e.path = AbsPath(c, p) /\ e.kind = "file"

\* os.path.getsize of an existing file
GetSize(dsk, c, p) ==
    (CHOOSE e \in dsk : e.path = AbsPath(c, p)).size

DirEntry(c, p) == [path |-> AbsPath(c, p), kind |-> "dir", size |-> 0, data |-> "dir"]

FileEntry(c, p, size, data) ==
    [path |-> AbsPath(c, p), kind |-> "file", size |-> size, data |-> data]

(***************************************************************************)
(* diskutil.alt_folder                                                     *)
(***************************************************************************)
RECURSIVE AltLoop(_, _, _, _, _, _, _)
\* for alt in range(start, stop): probe, return the first that is no directory
AltLoop(dsk, c, simplename, digits, alt, stop, probes) ==
    IF alt >= stop
    THEN [kind |-> "Exception", value |-> <<>>, probes |-> probes]
    ELSE LET altfolder == simplename \o <<"_">> \o ZFill(StrInt(alt), digits) IN
         IF ~IsDir(dsk, c, altfolder)
         THEN [kind |-> "ok", value |-> altfolder, probes |-> Append(probes, altfolder)]
         ELSE AltLoop(dsk, c, simplename, digits, alt + 1, stop, Append(probes, altfolder))

\* the range the loop runs over starts one late
AltFolder_SkipsStart(dsk, c, simplename, digits, start) ==
    IF simplename = <<>> THEN [kind |-> "ValueError", value |-> <<>>, probes |-> <<>>]
    ELSE IF digits < 1 \/ start < 0
    THEN [kind |-> "ValueError", value |-> <<>>, probes |-> <<>>]
    ELSE AltLoop(dsk, c, RStripChars(simplename, {"/"}), digits, start + 1, Pow10(digits), <<>>)

\* the range the loop runs over stops one early, and digits = 0 is let through
AltFolder_ShortRange(dsk, c, simplename, digits, start) ==
    IF simplename = <<>> THEN [kind |-> "ValueError", value |-> <<>>, probes |-> <<>>]
    ELSE IF digits < 0 \/ start < 0
    THEN [kind |-> "ValueError", value |-> <<>>, probes |-> <<>>]
    ELSE AltLoop(dsk, c, RStripChars(simplename, {"/"}), digits, start, Pow10(digits) - 1, <<>>)

\* alt_folder(simplename, digits, start): its result, and the paths it probed
AltFolder(dsk, c, simplename, digits, start) ==
    IF simplename = <<>> THEN [kind |-> "ValueError", value |-> <<>>, probes |-> <<>>]
    ELSE IF digits < 1 \/ start < 0
    THEN [kind |-> "ValueError", value |-> <<>>, probes |-> <<>>]
    ELSE AltLoop(dsk, c, RStripChars(simplename, {"/"}), digits, start, Pow10(digits), <<>>)

(***************************************************************************)
(* CopyLog: the copy ledger.                                               *)
(***************************************************************************)
\* str.lower() on the tokens of the alphabet that have an upper-case form
LowerChar(ch) ==
    CASE ch = "LOG" -> "log"
      [] ch = "JPG" -> "jpg"
      [] ch = "NEF" -> "nef"
      [] OTHER -> ch

Lower(s) == [i \in 1..Len(s) |-> LowerChar(s[i])]

\* str.endswith
EndsWith(s, suffix) ==
    /\ Len(s) >= Len(suffix)
    /\ SubSeq(s, Len(s) - Len(suffix) + 1, Len(s)) = suffix

RECURSIVE ReadLinesFrom(_, _, _, _)
ReadLinesFrom(text, i, cur, acc) ==
    IF i > Len(text) THEN (IF cur = <<>> THEN acc ELSE Append(acc, cur))
    ELSE IF text[i] = "\n"
    THEN ReadLinesFrom(text, i + 1, <<>>, Append(acc, Append(cur, "\n")))
    ELSE ReadLinesFrom(text, i + 1, Append(cur, text[i]), acc)

\* f.readlines(): the lines of a text, each with its terminator
ReadLines(text) == ReadLinesFrom(text, 1, <<>>, <<>>)

\* the lines are kept as read, terminator included
StrippedLines_NoStrip(text) ==
    LET lines == ReadLines(text) IN {lines[i] : i \in 1..Len(lines)}

\* [line.strip() for line in f.readlines()], as the set update() makes of it
StrippedLines(text) ==
    LET lines == ReadLines(text) IN {Strip(lines[i]) : i \in 1..Len(lines)}

NoLedger == [exists |-> FALSE, entries |-> {}]

\* CopyLog.__init__: the log file is named after the process id and the time
CopyLogNew(folder, pid, time) ==
    [copied_files |-> {},
     folder |-> folder,
     logfile |-> <<"copiedfiles", ".">> \o StrInt(pid) \o <<".">> \o StrInt(time)
                    \o <<".", "log">>,
     fh |-> "None",
     buffer |-> <<>>]

\* the entries load() reads: regular files whose path ends in ".log"
IsLogFile(folder, e) ==
    e.kind = "file" /\ EndsWith(Lower(Join(folder, e.name)), <<".", "log">>)

\* CopyLog.load: the folder is created when missing, every log file in it is
\* read and its stripped lines are merged into copied_files
CopyLogLoad(ldg, folder, pid, time) ==
    [ledger |-> [ldg EXCEPT !.exists = TRUE],
     clog |-> [CopyLogNew(folder, pid, time) EXCEPT !.copied_files =
                  UNION {StrippedLines(e.text) : e \in {x \in ldg.entries : IsLogFile(folder, x)}}]]

\* true as soon as one of the paths is in the set
AlreadyCopied_AnyPath(clog, paths) ==
    IF Len(paths) < 1 THEN [kind |-> "ValueError", value |-> FALSE]
    ELSE [kind |-> "ok", value |-> \E i \in 1..Len(paths) : paths[i] \in clog.copied_files]

\* no path is ever found in the set
AlreadyCopied_Never(clog, paths) ==
    IF Len(paths) < 1 THEN [kind |-> "ValueError", value |-> FALSE]
    ELSE [kind |-> "ok", value |-> FALSE]

\* CopyLog.already_copied(*copied_path)
AlreadyCopied(clog, paths) ==
    IF Len(paths) < 1 THEN [kind |-> "ValueError", value |-> FALSE]
    ELSE [kind |-> "ok", value |-> \A i \in 1..Len(paths) : paths[i] \in clog.copied_files]

\* CopyLog.__enter__: open(logfile, 'a') creates the file when it is missing
CopyLogEnter(clog, ldg) ==
    [clog |-> [clog EXCEPT !.fh = "open"],
     ledger |-> IF \E e \in ldg.entries : e.name = clog.logfile THEN ldg
                ELSE [ldg EXCEPT !.entries =
                          @ \cup {[name |-> clog.logfile, kind |-> "file", text |-> <<>>]}]]

\* the path is written without the line terminator
CopyLogAdd_NoNewline(clog, copied_path) ==
    IF clog.fh = "None" THEN [clog |-> clog, raised |-> "Exception"]
    ELSE IF clog.fh = "closed" THEN [clog |-> clog, raised |-> "ValueError"]
    ELSE [clog |-> [clog EXCEPT !.buffer = @ \o copied_path], raised |-> "none"]

\* the path is also put into the in-memory set
CopyLogAdd_UpdatesSet(clog, copied_path) ==
    IF clog.fh = "None" THEN [clog |-> clog, raised |-> "Exception"]
    ELSE IF clog.fh = "closed" THEN [clog |-> clog, raised |-> "ValueError"]
    ELSE [clog |-> [clog EXCEPT !.buffer = @ \o copied_path \o <<"\n">>,
                                !.copied_files = @ \cup {copied_path}],
          raised |-> "none"]

\* a ledger that was never entered takes the path without an error
CopyLogAdd_Unguarded(clog, copied_path) ==
    IF clog.fh = "closed" THEN [clog |-> clog, raised |-> "ValueError"]
    ELSE [clog |-> [clog EXCEPT !.buffer = @ \o copied_path \o <<"\n">>], raised |-> "none"]

\* CopyLog.add: the path and a newline go to the handle's buffer
CopyLogAdd(clog, copied_path) ==
    IF clog.fh = "None" THEN [clog |-> clog, raised |-> "Exception"]
    ELSE IF clog.fh = "closed" THEN [clog |-> clog, raised |-> "ValueError"]
    ELSE [clog |-> [clog EXCEPT !.buffer = @ \o copied_path \o <<"\n">>], raised |-> "none"]

\* the text of the folder's entries after `text` was appended to the file `name`
AppendToFile(ldg, name, text) ==
    [ldg EXCEPT !.entries =
        {IF e.name = name /\ e.kind = "file" THEN [e EXCEPT !.text = @ \o text] ELSE e : e \in @}]

\* the handle is closed and what it buffered is dropped
CopyLogExit_NoFlush(clog, ldg) ==
    [clog |-> [clog EXCEPT !.fh = "closed", !.buffer = <<>>], ledger |-> ldg]

\* CopyLog.__exit__: flush, then close
CopyLogExit(clog, ldg) ==
    [clog |-> [clog EXCEPT !.fh = "closed", !.buffer = <<>>],
     ledger |-> AppendToFile(ldg, clog.logfile, clog.buffer)]

LogsFolder == <<"/", "home", "/", ".", "importpics", "/", "copylogs">>

(***************************************************************************)
(* datetime: a datetime is [date |-> [y, m, d], sec |-> second of the day]. *)
(***************************************************************************)
IsLeap(y) == y % 4 = 0 /\ (y % 100 # 0 \/ y % 400 = 0)

\* days before January 1st of year y (datetime._days_before_year)
DaysBeforeYear(y) ==
    LET p == y - 1 IN p * 365 + p \div 4 - p \div 100 + p \div 400

\* days of year y before the first of month m (datetime._days_before_month)
DaysBeforeMonth(y, m) ==
    <<0, 31, 59, 90, 120, 151, 181, 212, 243, 273, 304, 334>>[m]
        + (IF m > 2 /\ IsLeap(y) THEN 1 ELSE 0)

\* date.toordinal()
ToOrdinal(date) == DaysBeforeYear(date.y) + DaysBeforeMonth(date.y, date.m) + date.d

\* datetime.date()
DateOf(dt) == dt.date

\* (a - b).days for two dates
DateDiffDays(a, b) == ToOrdinal(a) - ToOrdinal(b)

\* (a - b).days for two datetimes: the whole days of the difference, floored
DatetimeDiffDays(a, b) ==
    LET secs == (ToOrdinal(a.date) - ToOrdinal(b.date)) * 86400 + (a.sec - b.sec)
    IN  IF secs >= 0 THEN secs \div 86400 ELSE -((-secs + 86399) \div 86400)

(***************************************************************************)
(* CopyPlan                                                                *)
(***************************************************************************)
\* --number: None when the option is not given, else the integer given
NoMax == [is_none |-> TRUE, n |-> 0]
MaxOf(n) == [is_none |-> FALSE, n |-> n]

\* the truth value of maxpics in `if maxpics and ...`: None and 0 are false
Truthy(maxpics) == ~maxpics.is_none /\ maxpics.n # 0

\* CopyPlan.__init__
CopyPlanNew(lookback_days, started_dt, force, maxpics) ==
    IF lookback_days < 1 THEN [error |-> "ValueError"]
    ELSE IF Truthy(maxpics) /\ maxpics.n < 1 THEN [error |-> "ValueError"]
    ELSE [error |-> "none",
          lookback_days |-> lookback_days,
          started_dt |-> started_dt,
          force |-> force,
          groups_to_copy |-> <<>>,
          bytes_to_copy |-> 0,
          start_disk_avail |-> -1,
          destpath |-> <<>>,
          maxpics |-> maxpics]

\* the two datetimes are compared, not their dates
InLookback_WholeDatetime(pl, dt) ==
    DatetimeDiffDays(pl.started_dt, dt) <= pl.lookback_days

\* CopyPlan.in_lookback
InLookback(pl, dt) ==
    DateDiffDays(DateOf(pl.started_dt), DateOf(dt)) <= pl.lookback_days

(***************************************************************************)
(* FileGroup and the grouping of copy_pictures.                            *)
(***************************************************************************)
RECURSIVE LastIndexOf(_, _)
\* the last position of ch in s, 0 if there is none
LastIndexOf(s, ch) ==
    IF s = <<>> THEN 0
    ELSE IF s[Len(s)] = ch THEN Len(s)
    ELSE LastIndexOf(SubSeq(s, 1, Len(s) - 1), ch)

\* os.path.basename
BaseName(path) == SubSeq(path, LastIndexOf(path, "/") + 1, Len(path))

\* FileGroup.basepath: str(pathlib.Path(path).with_suffix("")); the suffix is
\* what follows the last "." of the name, unless the name starts or ends with it
BasePath(path) ==
    LET slash == LastIndexOf(path, "/")
        name == SubSeq(path, slash + 1, Len(path))
        dot == LastIndexOf(name, ".")
    IN  IF dot > 1 /\ dot < Len(name) THEN SubSeq(path, 1, slash + dot - 1) ELSE path

NoPath == <<>>
NoDate == [date |-> [y |-> 0, m |-> 0, d |-> 0], sec |-> 0]

\* FileGroup.__init__ (None is NoPath, NoDate, or -1 for a number)
FileGroupNew ==
    [files |-> <<>>, base_path |-> NoPath, total_bytes |-> -1,
     dest_subfolder |-> NoPath, dest_subfolderalt |-> NoPath, exif_date |-> NoDate]

\* the path is put in front of the members
FileGroupAppend_Prepend(fg, path) ==
    [fg |-> [fg EXCEPT !.files = <<path>> \o @,
                       !.base_path = IF @ = NoPath THEN BasePath(path) ELSE @],
     raised |-> IF fg.base_path # NoPath /\ fg.base_path # BasePath(path)
                THEN "Exception" ELSE "none"]

\* FileGroup.append
FileGroupAppend(fg, path) ==
    [fg |-> [fg EXCEPT !.files = Append(@, path),
                       !.base_path = IF @ = NoPath THEN BasePath(path) ELSE @],
     raised |-> IF fg.base_path # NoPath /\ fg.base_path # BasePath(path)
                THEN "Exception" ELSE "none"]

\* FileGroup.jpg: the one member that ends in ".jpg"
FileGroupJpg(fg) ==
    LET jpgs == SelectSeq(fg.files, LAMBDA f : EndsWith(Lower(f), <<".", "jpg">>))
    IN  IF Len(jpgs) # 1 THEN [raised |-> "Exception", value |-> NoPath]
        ELSE [raised |-> "none", value |-> jpgs[1]]

RECURSIVE GroupFiles(_, _)
\* groups = defaultdict(FileGroup); for p in picfiles: groups[basepath(p)].append(p)
\* the dict keeps its keys in the order of their first insertion; acc is
\* [groups, raised], groups a sequence of [key, fg]; an exception ends the loop
GroupFiles(picfiles, acc) ==
    IF picfiles = <<>> \/ acc.raised # "none" THEN acc
    ELSE LET p == Head(picfiles)
             key == BasePath(p)
             at == {i \in 1..Len(acc.groups) : acc.groups[i].key = key}
         IN  IF at = {}
             THEN LET r == FileGroupAppend(FileGroupNew, p) IN
                  GroupFiles(Tail(picfiles),
                             [groups |-> Append(acc.groups, [key |-> key, fg |-> r.fg]),
                              raised |-> r.raised])
             ELSE LET i == CHOOSE i \in at : TRUE
                      r == FileGroupAppend(acc.groups[i].fg, p)
                  IN  GroupFiles(Tail(picfiles),
                                 [groups |-> [acc.groups EXCEPT ![i].fg = r.fg],
                                  raised |-> r.raised])

\* the empty dict
NoGroups == [groups |-> <<>>, raised |-> "none"]

(***************************************************************************)
(* Metrics (None is -1 for a counter).                                     *)
(***************************************************************************)
MetricsNew ==
    [total_seen |-> -1, already_copied |-> -1, too_old |-> -1, copied |-> 0,
     failed |-> <<>>, file_existed |-> <<>>, alt_folders |-> <<>>]

\* len(items or [1])
LenOrOne(items) == IF Len(items) = 0 THEN 1 ELSE Len(items)

IncAlreadyCopied(m, items) ==
    [m EXCEPT !.already_copied = (IF @ = -1 THEN 0 ELSE @) + LenOrOne(items)]

IncTooOld(m, items) ==
    [m EXCEPT !.too_old = (IF @ = -1 THEN 0 ELSE @) + LenOrOne(items)]

\* the copy is not counted
IncCopied_NotCounted(m) == m

\* metrics.inc_copied()
IncCopied(m) == [m EXCEPT !.copied = @ + 1]

(***************************************************************************)
(* EXIF: a picture file's data carries its tags [has_date, date, cam].     *)
(***************************************************************************)
\* exif_tags(filename)
ExifTags(dsk, c, filename) ==
    IF ~EndsWith(Lower(filename), <<"jpg">>) THEN [raised |-> "ValueError"]
    ELSE IF ~IsFile(dsk, c, filename) THEN [raised |-> "IOError"]
    ELSE [raised |-> "none", tags |-> (CHOOSE e \in dsk : e.path = AbsPath(c, filename)).data]

\* a picture without date tags gets the epoch as its date; nothing is raised
ExifDate_DefaultsToEpoch(tags) ==
    [raised |-> "none",
     value |-> IF tags.has_date THEN tags.date
               ELSE [date |-> [y |-> 1970, m |-> 1, d |-> 1], sec |-> 0]]

\* exif_date(tags)
ExifDate(tags) ==
    IF tags.has_date THEN [raised |-> "none", value |-> tags.date]
    ELSE [raised |-> "Exception", value |-> NoDate]

\* date.strftime("%y%m%d")
StrfYYMMDD(dt) ==
    ZFill(StrInt(dt.date.y % 100), 2) \o ZFill(StrInt(dt.date.m), 2) \o ZFill(StrInt(dt.date.d), 2)

\* get_dest_subfolder(tags, YYMMDD): date, "_", camera hash (an opaque token)
GetDestSubfolder(tags) == StrfYYMMDD(tags.date) \o <<"_", tags.cam>>

(***************************************************************************)
(* schedule_copy                                                           *)
(***************************************************************************)
RECURSIVE SumSizes(_, _, _)
\* for f in fg: total_bytes += os.path.getsize(f)
SumSizes(dsk, c, files) ==
    IF files = <<>> THEN 0
    ELSE GetSize(dsk, c, Head(files)) + SumSizes(dsk, c, Tail(files))

\* the shot is planned and its bytes are not counted
CopyPlanAdd_NoBytes(pl, g, fg) == [pl EXCEPT !.groups_to_copy = Append(@, g)]

\* CopyPlan.add; the plan holds the group by reference (its index in groups)
CopyPlanAdd(pl, g, fg) ==
    [pl EXCEPT !.groups_to_copy = Append(@, g), !.bytes_to_copy = @ + fg.total_bytes]

\* schedule_copy(metrics, copyplan, copylog, fg), fg being groups[g]
ScheduleCopy(m, pl, clog, g, fg, dsk, c) ==
    LET keep(outcome, raised, mm, f) ==
            [metrics |-> mm, plan |-> pl, fg |-> f, raised |-> raised, outcome |-> outcome]
    IN
    IF Truthy(pl.maxpics) /\ Len(pl.groups_to_copy) >= pl.maxpics.n
    THEN keep("cap", "none", m, fg)
    ELSE IF ~pl.force /\ AlreadyCopied(clog, fg.files).kind # "ok"
    THEN keep("fatal", AlreadyCopied(clog, fg.files).kind, m, fg)
    ELSE IF ~pl.force /\ AlreadyCopied(clog, fg.files).value
    THEN keep("already", "none", IncAlreadyCopied(m, fg.files), fg)
    ELSE
    LET jpg == FileGroupJpg(fg) IN
    IF jpg.raised # "none" THEN keep("fatal", jpg.raised, m, fg)
    ELSE
    LET read == ExifTags(dsk, c, jpg.value) IN
    IF read.raised # "none" THEN keep("fatal", read.raised, m, fg)
    ELSE IF ExifDate(read.tags).raised # "none"
    THEN keep("fatal", ExifDate(read.tags).raised, m, fg)
    ELSE
    LET sub == GetDestSubfolder(read.tags)
        alt == AltFolder(dsk, c, sub, 2, 1)
        fg1 == [fg EXCEPT !.dest_subfolder = sub]
    IN
    IF alt.kind # "ok" THEN keep("fatal", alt.kind, m, fg1)
    ELSE
    LET fg2 == [fg1 EXCEPT !.dest_subfolderalt = alt.value,
                           !.exif_date = ExifDate(read.tags).value]
    IN
    IF ~InLookback(pl, fg2.exif_date)
    THEN keep("too_old", "none", IncTooOld(m, fg.files), fg2)
    ELSE
    LET fg3 == [fg2 EXCEPT !.total_bytes = SumSizes(dsk, c, fg.files)] IN
    [metrics |-> m, plan |-> CopyPlanAdd(pl, g, fg3), fg |-> fg3,
     raised |-> "none", outcome |-> "accepted"]

(***************************************************************************)
(* try_copy                                                                *)
(*                                                                         *)
(* What copying one file does is not decided by the program: the copy      *)
(* succeeds, fails with an IOError, or the process is interrupted during   *)
(* it; in the last two cases nothing or a shorter file is left behind.     *)
(* An outcome is [kind, left]: left = -1 for no file left behind, else the *)
(* size of the partial file.                                               *)
(***************************************************************************)
OkOutcome == [kind |-> "ok", left |-> -1]

\* the file system after a file of this size and data was written at target
WriteFile(dsk, c, target, size, data) ==
    {e \in dsk : e.path # AbsPath(c, target)} \cup {FileEntry(c, target, size, data)}

\* where shutil.copy(f, fdest) writes: into fdest when it is a directory
CopyTarget(dsk, c, f, fdest) ==
    IF IsDir(dsk, c, fdest) THEN Join(fdest, BaseName(f)) ELSE fdest

\* shutil.copy(f, fdest) with the given outcome
ShutilCopy(dsk, c, f, fdest, out) ==
    LET src == CHOOSE e \in dsk : e.path = AbsPath(c, f)
        target == CopyTarget(dsk, c, f, fdest)
    IN  IF out.kind = "ok" THEN WriteFile(dsk, c, target, src.size, src.data)
        ELSE IF out.left >= 0 THEN WriteFile(dsk, c, target, out.left, "partial")
        ELSE dsk

\* os.makedirs(path) below an existing parent
MakeDirs(dsk, c, path) ==
    IF Exists(dsk, c, path) THEN [raised |-> "FileExistsError", disk |-> dsk]
    ELSE [raised |-> "none", disk |-> dsk \cup {DirEntry(c, path)}]

\* no shot goes to its alternate folder
UseAltFolder_Never(dsk, c, destfolder, files) == FALSE

\* every shot goes to its alternate folder
UseAltFolder_Always(dsk, c, destfolder, files) == TRUE

\* the probe of try_copy: some member's destination is a directory, or a file
\* of another size than the source
UseAltFolder(dsk, c, destfolder, files) ==
    \E i \in 1..Len(files) :
        LET fdest == Join(destfolder, BaseName(files[i])) IN
        \/ IsDir(dsk, c, fdest)
        \/ /\ IsFile(dsk, c, fdest)
           /\ GetSize(dsk, c, files[i]) # GetSize(dsk, c, fdest)

\* the existence of the destination is not looked at
DestIsFile_NotChecked(dsk, c, fdest) == FALSE

\* the test of the copy loop: os.path.isfile(fdest)
DestIsFile(dsk, c, fdest) == IsFile(dsk, c, fdest)

\* the failed copy leaves no trace in the metrics
RecordFailed_Dropped(m, fdest) == m

\* except IOError: metrics.failed.append(fdest)
RecordFailed(m, fdest) == [m EXCEPT !.failed = Append(@, fdest)]

RECURSIVE CopyLoop(_, _, _, _, _, _)
\* the second loop of try_copy, from member i on; st is [metrics, clog, disk,
\* raised, killed, copies], copies being the record of the copies attempted
CopyLoop(st, c, destfolder, files, outs, i) ==
    IF i > Len(files) \/ st.raised # "none" \/ st.killed THEN st
    ELSE
    LET f == files[i]
        fdest == Join(destfolder, BaseName(f))
    IN
    IF DestIsFile(st.disk, c, fdest)
    THEN IF GetSize(st.disk, c, f) = GetSize(st.disk, c, fdest)
         THEN CopyLoop([st EXCEPT !.metrics.file_existed = Append(@, f)],
                       c, destfolder, files, outs, i + 1)
         ELSE [st EXCEPT !.raised = "Exception: logic error copying files"]
    ELSE
    LET out == outs[i]
        attempt == [src |-> f, dest |-> CopyTarget(st.disk, c, f, fdest),
                    existed |-> IsFile(st.disk, c, CopyTarget(st.disk, c, f, fdest)),
                    kind |-> out.kind]
        copied == [st EXCEPT !.disk = ShutilCopy(st.disk, c, f, fdest, out),
                             !.copies = Append(@, attempt)]
    IN
    IF out.kind = "killed" THEN [copied EXCEPT !.killed = TRUE]
    ELSE IF out.kind = "ioerror"
    THEN CopyLoop([copied EXCEPT !.metrics = RecordFailed(@, fdest)],
                  c, destfolder, files, outs, i + 1)
    ELSE
    LET added == CopyLogAdd(copied.clog, f) IN
    IF added.raised # "none" THEN [copied EXCEPT !.raised = added.raised]
    ELSE CopyLoop([copied EXCEPT !.clog = added.clog, !.metrics = IncCopied(@)],
                  c, destfolder, files, outs, i + 1)

\* try_copy(metrics, copyplan, copylog, fg) with the outcomes outs of its copies
TryCopy(m, pl, clog, fg, dsk, c, outs) ==
    LET st0 == [metrics |-> m, clog |-> clog, disk |-> dsk, raised |-> "none",
                killed |-> FALSE, copies |-> <<>>]
        destfolder == Join(pl.destpath, fg.dest_subfolder)
        made == IF ~IsDir(dsk, c, destfolder) THEN MakeDirs(dsk, c, destfolder)
                ELSE [raised |-> "none", disk |-> dsk]
    IN
    IF made.raised # "none" THEN [st0 EXCEPT !.raised = made.raised]
    ELSE IF UseAltFolder(made.disk, c, destfolder, fg.files)
    THEN LET altfolder == Join(pl.destpath, fg.dest_subfolderalt)
             madealt == MakeDirs(made.disk, c, altfolder)
         IN  IF madealt.raised # "none"
             THEN [st0 EXCEPT !.raised = madealt.raised, !.disk = made.disk]
             ELSE CopyLoop([st0 EXCEPT !.disk = madealt.disk,
                                       !.metrics.alt_folders = Append(@, altfolder)],
                           c, altfolder, fg.files, outs, 1)
    ELSE CopyLoop([st0 EXCEPT !.disk = made.disk], c, destfolder, fg.files, outs, 1)

(***************************************************************************)
(* The alt_folder scenarios: calls of alt_folder interleaved with the      *)
(* creation of the name it returned (as diskutil's doctest does).          *)
(***************************************************************************)
AltNames == {<<>>, <<"X">>, <<"X", "/">>}
AltDigits == {0, 1, 2}
AltStarts == {-1, 1, 9, 99}
AltCwd == <<"/", "w">>

NoCall == [op |-> "none"]

vars == <<disk, cwd, ledger, copylog, call, pc, plan, metrics, groups, hist>>

runVars == <<pc, plan, metrics, groups, hist>>

NoRun == [at |-> "idle", i |-> 0, run |-> 0, exit |-> ""]

\* history: nothing is known of a run before
NoPrev == [clean |-> FALSE, executed |-> {}, existed |-> {}, capped |-> FALSE]

NoHist == [last |-> [op |-> "none"], fully |-> {}, mustHave |-> {}, added |-> <<>>,
           faults |-> 0, interrupted |-> {}, prev |-> NoPrev]

\* no import run takes part in a scenario
IdleRun ==
    /\ pc = NoRun
    /\ plan = [error |-> "none"]
    /\ metrics = [total_seen |-> -1]
    /\ groups = <<>>
    /\ hist = NoHist

\* the ledger takes no part in a scenario
NoLog == ledger = NoLedger /\ copylog = CopyLogNew(<<>>, 0, 0)

AltInit ==
    /\ disk = {DirEntry(AltCwd, <<>>), DirEntry(AltCwd, <<"X">>)}
    /\ cwd = AltCwd
    /\ call = NoCall
    /\ NoLog
    /\ IdleRun

\* alt = alt_folder(name, digits, start)
AltCall ==
    \E name \in AltNames, digits \in AltDigits, start \in AltStarts :
        /\ call' = [op |-> "alt_folder", name |-> name, digits |-> digits,
                    start |-> start, result |-> AltFolder(disk, cwd, name, digits, start),
                    at |-> disk, created |-> FALSE]
        /\ UNCHANGED <<disk, cwd, ledger, copylog>>
        /\ UNCHANGED runVars

\* os.makedirs(alt): the returned name is created as a directory
AltMakeDir ==
    /\ call.op = "alt_folder"
    /\ call.result.kind = "ok"
    /\ ~Exists(disk, cwd, call.result.value)
    /\ Cardinality(disk) < MaxDirs + 2
    /\ disk' = disk \cup {DirEntry(cwd, call.result.value)}
    /\ call' = [call EXCEPT !.created = TRUE]
    /\ UNCHANGED <<cwd, ledger, copylog>>
    /\ UNCHANGED runVars

\* something else creates a regular file under the returned name
AltMakeFile ==
    /\ call.op = "alt_folder"
    /\ call.result.kind = "ok"
    /\ ~Exists(disk, cwd, call.result.value)
    /\ Cardinality(disk) < MaxDirs + 2
    /\ disk' = disk \cup {FileEntry(cwd, call.result.value, 0, "other")}
    /\ UNCHANGED <<cwd, call, ledger, copylog>>
    /\ UNCHANGED runVars

AltNext == AltCall \/ AltMakeDir \/ AltMakeFile

SpecAlt == AltInit /\ [][AltNext]_vars

(***************************************************************************)
(* What the claims about alt_folder speak of, stated without the loop.     *)
(***************************************************************************)
IsDigit(ch) == \E k \in 0..9 : DigitChar(k) = ch

DigitVal(ch) == CHOOSE k \in 0..9 : DigitChar(k) = ch

RECURSIVE DecValue(_)
DecValue(s) ==
    IF s = <<>> THEN 0
    ELSE 10 * DecValue(SubSeq(s, 1, Len(s) - 1)) + DigitVal(s[Len(s)])

\* v is base, "_", and the number n written with exactly `digits` digits
IsSuffixed(v, base, digits, n) ==
    /\ Len(v) = Len(base) + 1 + digits
    /\ SubSeq(v, 1, Len(base)) = base
    /\ v[Len(base) + 1] = "_"
    /\ \A i \in (Len(base) + 2)..Len(v) : IsDigit(v[i])
    /\ DecValue(SubSeq(v, Len(base) + 2, Len(v))) = n

\* base is name without its trailing "/" characters
WithoutTrailingSlashes(name, base) ==
    \E k \in 0..Len(name) :
        /\ base = SubSeq(name, 1, k)
        /\ k = 0 \/ name[k] # "/"
        /\ \A i \in (k + 1)..Len(name) : name[i] = "/"

\* the candidate of number m under base exists as a directory on dsk
CandidateIsDir(dsk, c, base, digits, m) ==
    \E e \in dsk :
        /\ e.kind = "dir"
        /\ \E v \in {SubSeq(e.path, Len(c) + 2, Len(e.path))} :
               e.path = AbsPath(c, v) /\ IsSuffixed(v, base, digits, m)

AltValidArgs(c) == c.name # <<>> /\ c.digits >= 1 /\ c.start >= 0

\* the result is the first free candidate of the range under base
AltFirstFree(c, base) ==
    \E n \in c.start..(Pow10(c.digits) - 1) :
        /\ IsSuffixed(c.result.value, base, c.digits, n)
        /\ \A e \in c.at : e.path = AbsPath(cwd, c.result.value) => e.kind # "dir"
        /\ \A m \in c.start..(n - 1) : CandidateIsDir(c.at, cwd, base, c.digits, m)

AltSameArgs(c, d) == c.name = d.name /\ c.digits = d.digits /\ c.start = d.start

\* a call creates nothing; repeated on an unchanged disk it returns the same
\* name; after the returned name was created as a directory the next call
\* with the same arguments returns a later number
AltCallStep ==
    /\ (call'.op = "alt_folder" /\ call' # call /\ call'.created = FALSE)
           => disk' = disk
    /\ (call.op = "alt_folder" /\ call'.op = "alt_folder" /\ AltSameArgs(call, call')
           /\ call'.created = FALSE /\ call'.at = call.at)
           => call'.result = call.result
    /\ (call.op = "alt_folder" /\ call'.op = "alt_folder" /\ AltSameArgs(call, call')
           /\ call.created /\ call'.created = FALSE /\ call'.result.kind = "ok")
           => /\ call'.result.value # call.result.value
              /\ DecValue(SubSeq(call'.result.value, Len(call'.result.value) - call.digits + 1,
                                  Len(call'.result.value)))
                   > DecValue(SubSeq(call.result.value, Len(call.result.value) - call.digits + 1,
                                     Len(call.result.value)))

\* C8 as written: alt_folder with valid arguments returns name + "_" + n
\* zero-padded to `digits`, n the smallest number of start..10^digits-1 whose
\* suffixed name is no directory at call time.
C8_AsWritten ==
    (call.op = "alt_folder" /\ AltValidArgs(call) /\ call.result.kind = "ok")
        => AltFirstFree(call, call.name)

\* C8 (amended): alt_folder with valid arguments returns base + "_" + n
\* zero-padded to `digits`, where base is name with its trailing "/" characters
\* removed and n is the smallest number of start..10^digits-1 whose suffixed
\* name is no directory at call time (every smaller candidate of the range is
\* a directory); the call changes nothing on disk, a repeated call on the
\* unchanged disk returns the same name, and once the returned name was
\* created as a directory the next call returns a later number.
C8_AltFolderFirstFree ==
    /\ [](  (call.op = "alt_folder" /\ AltValidArgs(call) /\ call.result.kind = "ok")
              => \E base \in {SubSeq(call.name, 1, k) : k \in 0..Len(call.name)} :
                    WithoutTrailingSlashes(call.name, base) /\ AltFirstFree(call, base))
    /\ [][AltCallStep]_vars

\* a call that had to pass over an existing directory: X_01 exists, X_02 is returned
C8_Witness ==
    /\ call.op = "alt_folder"
    /\ call.name = <<"X", "/">> /\ call.digits = 2 /\ call.start = 1
    /\ call.result.kind = "ok"
    /\ call.result.value = <<"X", "_", "0", "2">>
    /\ IsDir(call.at, cwd, <<"X", "_", "0", "1">>)

\* C9: alt_folder raises the exhaustion error exactly when its arguments are
\* valid and every candidate of start..10^digits-1 exists as a directory, and
\* raises the invalid-argument error, without probing the disk, exactly when
\* the name is empty, digits < 1 or start < 0.
C9_AltFolderErrors ==
    call.op = "alt_folder" =>
        /\ call.result.kind = "ValueError" <=> ~AltValidArgs(call)
        /\ ~AltValidArgs(call) => call.result.probes = <<>>
        /\ call.result.kind = "Exception" <=>
              /\ AltValidArgs(call)
              /\ \A m \in call.start..(Pow10(call.digits) - 1) :
                     CandidateIsDir(call.at, cwd, RStripChars(call.name, {"/"}), call.digits, m)

\* digits = 1, start = 9 after X_9 was created: exhausted
C9_Witness ==
    /\ call.op = "alt_folder"
    /\ call.name = <<"X">> /\ call.digits = 1 /\ call.start = 9
    /\ call.result.kind = "Exception"
    /\ IsDir(call.at, cwd, <<"X", "_", "9">>)


(***************************************************************************)
(* The in_lookback scenarios: a plan started at some instant, asked about  *)
(* a capture taken a number of calendar days before (or after) the start.  *)
(***************************************************************************)
MaxLookback == 4     \* lookback windows 1..MaxLookback
MaxDaysAgo == 6      \* captures up to MaxDaysAgo days before the start
MaxDaysAhead == 2    \* captures up to MaxDaysAhead days after the start

LbStartDates == {[y |-> 2010, m |-> 6, d |-> 20], [y |-> 2010, m |-> 1, d |-> 2],
                 [y |-> 2012, m |-> 3, d |-> 2], [y |-> 2100, m |-> 3, d |-> 1]}
LbTimes == {0, 43200, 86399}

DaysInMonth(y, m) ==
    IF m = 2 THEN (IF IsLeap(y) THEN 29 ELSE 28)
    ELSE IF m \in {4, 6, 9, 11} THEN 30 ELSE 31

\* the calendar day before / after a date
PrevDay(date) ==
    IF date.d > 1 THEN [date EXCEPT !.d = date.d - 1]
    ELSE IF date.m > 1 THEN [y |-> date.y, m |-> date.m - 1, d |-> DaysInMonth(date.y, date.m - 1)]
    ELSE [y |-> date.y - 1, m |-> 12, d |-> 31]

NextDay(date) ==
    IF date.d < DaysInMonth(date.y, date.m) THEN [date EXCEPT !.d = date.d + 1]
    ELSE IF date.m < 12 THEN [y |-> date.y, m |-> date.m + 1, d |-> 1]
    ELSE [y |-> date.y + 1, m |-> 1, d |-> 1]

RECURSIVE DaysBefore(_, _)
\* the date k calendar days before `date` (after it, for k < 0)
DaysBefore(date, k) ==
    IF k = 0 THEN date
    ELSE IF k > 0 THEN DaysBefore(PrevDay(date), k - 1)
    ELSE DaysBefore(NextDay(date), k + 1)

\* the arguments of one call: a plan and a capture timestamp
LbInit ==
    /\ disk = {}
    /\ cwd = <<>>
    /\ NoLog
    /\ IdleRun
    /\ \E sd \in LbStartDates, st \in LbTimes, ct \in LbTimes,
          lookback \in 1..MaxLookback, k \in (-MaxDaysAhead)..MaxDaysAgo :
           call = [op |-> "in_lookback_args",
                   plan |-> CopyPlanNew(lookback, [date |-> sd, sec |-> st], FALSE, NoMax),
                   capture |-> [date |-> DaysBefore(sd, k), sec |-> ct],
                   daysAgo |-> k]

\* plan.in_lookback(capture)
LbCall ==
    /\ call.op = "in_lookback_args"
    /\ call' = [op |-> "in_lookback", plan |-> call.plan, capture |-> call.capture,
                daysAgo |-> call.daysAgo, result |-> InLookback(call.plan, call.capture)]
    /\ UNCHANGED <<disk, cwd, ledger, copylog>>
    /\ UNCHANGED runVars

SpecLookback == LbInit /\ [][LbCall]_vars

\* C10: in_lookback(capture) is true if and only if the capture's date is at
\* most lookback_days calendar days before the date the run started (so a
\* capture dated after the start is always in the window), whatever the time
\* of day of either timestamp; with the start on 2010-06-20 and a lookback of
\* 3, captures 0, 1, 2, 3 days earlier are in and one 4 days earlier is out.
C10_InLookback ==
    call.op = "in_lookback" =>
        /\ call.capture.date = DaysBefore(call.plan.started_dt.date, call.daysAgo)
        /\ call.result <=> (call.daysAgo <= call.plan.lookback_days)
        /\ call.daysAgo < 0 => call.result
        /\ (call.plan.started_dt.date = [y |-> 2010, m |-> 6, d |-> 20]
              /\ call.plan.lookback_days = 3)
             => /\ call.capture.date = [y |-> 2010, m |-> 6, d |-> 16] => ~call.result
                /\ call.capture.date \in {[y |-> 2010, m |-> 6, d |-> dd] : dd \in 17..20}
                      => call.result

\* the boundary: started 2010-06-20 at midnight, lookback 3, a capture late in
\* the evening four days earlier is out of the window
C10_Witness ==
    /\ call.op = "in_lookback"
    /\ call.plan.started_dt = [date |-> [y |-> 2010, m |-> 6, d |-> 20], sec |-> 0]
    /\ call.plan.lookback_days = 3
    /\ call.capture = [date |-> [y |-> 2010, m |-> 6, d |-> 16], sec |-> 86399]
    /\ call.result = FALSE


(***************************************************************************)
(* The ledger scenarios: a folder holding a log file of some text and a    *)
(* second entry (a log file, a file of another name, or a directory) is    *)
(* loaded; already_copied is then asked about some paths.  Another process *)
(* may add a log file after the load.                                      *)
(***************************************************************************)
MaxText == 3         \* the first log file's text has up to MaxText characters
MaxArgs == 2         \* already_copied is called with up to MaxArgs paths

LogAlphabet == {"a", " ", "\n"}

RECURSIVE TextsUpTo(_)
TextsUpTo(n) ==
    IF n = 0 THEN {<<>>}
    ELSE LET shorter == TextsUpTo(n - 1) IN
         shorter \cup {Append(t, ch) : t \in shorter, ch \in LogAlphabet}

LogSecondEntries ==
    {[name |-> <<"x", ".", "log">>, kind |-> "file", text |-> <<"b", "\n", " ", "c", " ">>],
     [name |-> <<"x", ".", "LOG">>, kind |-> "file", text |-> <<"b", "\n", " ", "c", " ">>],
     [name |-> <<"x", ".", "txt">>, kind |-> "file", text |-> <<"b", "\n", " ", "c", " ">>],
     [name |-> <<"x", ".", "log">>, kind |-> "dir", text |-> <<"b", "\n", " ", "c", " ">>]}

LogLateEntry == [name |-> <<"late", ".", "log">>, kind |-> "file", text |-> <<"d", "\n">>]

LogQueryPaths == {<<>>, <<"a">>, <<" ", "a">>, <<"a", " ">>, <<"a", " ", "a">>,
                  <<"b">>, <<"c">>, <<"d">>}

RECURSIVE TuplesUpTo(_, _)
TuplesUpTo(S, n) ==
    IF n = 0 THEN {<<>>}
    ELSE LET shorter == TuplesUpTo(S, n - 1) IN
         shorter \cup {Append(t, x) : t \in shorter, x \in S}

LogInit ==
    /\ disk = {}
    /\ cwd = <<>>
    /\ call = NoCall
    /\ copylog = CopyLogNew(<<>>, 0, 0)
    /\ IdleRun
    /\ \/ ledger = NoLedger
       \/ \E t \in TextsUpTo(MaxText), e \in LogSecondEntries :
             ledger = [exists |-> TRUE,
                       entries |-> {[name |-> <<"copiedfiles", ".", "1", ".", "1", ".", "log">>,
                                     kind |-> "file", text |-> t], e}]

\* copylog = CopyLog.load(folder)
LogLoad ==
    /\ call.op = "none"
    /\ LET r == CopyLogLoad(ledger, LogsFolder, 2, 2) IN
          /\ ledger' = r.ledger
          /\ copylog' = r.clog
          /\ call' = [op |-> "load", at |-> ledger]
    /\ UNCHANGED <<disk, cwd>>
    /\ UNCHANGED runVars

\* another run, started meanwhile, leaves its own log file in the folder
LogLateFile ==
    /\ call.op = "load"
    /\ LogLateEntry \notin ledger.entries
    /\ ledger' = [ledger EXCEPT !.entries = @ \cup {LogLateEntry}]
    /\ UNCHANGED <<disk, cwd, copylog, call>>
    /\ UNCHANGED runVars

\* copylog.already_copied(*paths)
LogQuery ==
    /\ call.op = "load"
    /\ \E paths \in TuplesUpTo(LogQueryPaths, MaxArgs) :
          call' = [op |-> "already_copied", at |-> call.at, paths |-> paths,
                   result |-> AlreadyCopied(copylog, paths)]
    /\ UNCHANGED <<disk, cwd, ledger, copylog>>
    /\ UNCHANGED runVars

LogNext == LogLoad \/ LogLateFile \/ LogQuery

SpecLog == LogInit /\ [][LogNext]_vars

\* the characters i..j of text are one line of it, without the terminator
IsLineOf(text, i, j) ==
    /\ 1 <= i /\ i <= j + 1 /\ j <= Len(text)
    /\ \A k \in i..j : text[k] # "\n"
    /\ i = 1 \/ text[i - 1] = "\n"
    /\ \/ j < Len(text) /\ text[j + 1] = "\n"
       \/ j = Len(text) /\ i <= j

\* p is the line i..j of text without its leading and trailing blanks
IsTrimOf(p, text, i, j) ==
    \E a \in i..(j + 1), b \in (i - 1)..j :
        /\ b - a + 1 = Len(p)
        /\ \A k \in 1..Len(p) : p[k] = text[a + k - 1]
        /\ \A k \in i..(a - 1) : text[k] \in {" ", "\t"}
        /\ \A k \in (b + 1)..j : text[k] \in {" ", "\t"}
        /\ p # <<>> => (p[1] \notin {" ", "\t"} /\ p[Len(p)] \notin {" ", "\t"})

\* p is a trimmed line of a log file (a regular file named *.log, in any
\* case) of the folder as it was when it was loaded
IsTrimmedLogLine(p, ldg) ==
    \E e \in ldg.entries :
        /\ e.kind = "file"
        /\ LowerChar(e.name[Len(e.name)]) = "log" /\ e.name[Len(e.name) - 1] = "."
        /\ \E i \in 1..(Len(e.text) + 1), j \in 0..Len(e.text) :
              IsLineOf(e.text, i, j) /\ IsTrimOf(p, e.text, i, j)

\* C5: already_copied(p1..pn) with n >= 1 is true if and only if every pi is a
\* trimmed line of some log file that was in the ledger folder when the
\* ledger was loaded, and with no path it raises the invalid-argument error.
C5_AlreadyCopied ==
    call.op = "already_copied" =>
        /\ call.result.kind = "ValueError" <=> Len(call.paths) = 0
        /\ Len(call.paths) >= 1 =>
              (call.result.value <=>
                  \A i \in 1..Len(call.paths) : IsTrimmedLogLine(call.paths[i], call.at))

\* two paths, one a padded line of the first log and one a line of the second
\* log: true; and a file added after the load is in the folder by now
C5_Witness ==
    /\ call.op = "already_copied"
    /\ call.paths = <<<<"a">>, <<"c">>>>
    /\ call.result = [kind |-> "ok", value |-> TRUE]
    /\ LogLateEntry \in ledger.entries
    /\ \E e \in call.at.entries : e.text = <<" ", "a", "\n">>


(***************************************************************************)
(* The import: runs of copy_pictures, one after the other, over the same   *)
(* card, destination and ledger folder.                                    *)
(*                                                                         *)
(* The card holds shot A (a.jpg of 2 bytes and a.NEF of 1 byte in folder   *)
(* 100) and shot B (a.jpg of 1 byte in folder 101), taken with the same    *)
(* camera.  A was taken on 2010-06-20; B on the same day, or three weeks   *)
(* earlier, or its JPEG carries no date.  The destination may already hold *)
(* an a.jpg in A's folder: the same size as A's, another size, or a        *)
(* directory of that name.  The process runs in the destination or in the  *)
(* home directory.  A run may be forced and may be capped at one shot.     *)
(***************************************************************************)
MaxRuns == 2         \* runs of the program
MaxFaults == 1       \* copies that fail or are interrupted, per run
DefaultDays == 7     \* --days

Volume == <<"/", "Volumes", "/", "NO", " ", "NAME">>
FileAJpg == Volume \o <<"/", "100", "/", "a", ".", "jpg">>
FileANef == Volume \o <<"/", "100", "/", "a", ".", "NEF">>
FileBJpg == Volume \o <<"/", "101", "/", "a", ".", "jpg">>

\* all_pics(volume_path): the card's picture files in the order of the walk
PicFiles == <<FileAJpg, FileANef, FileBJpg>>

\* all_pics(volume_path) for the card as it is: the picture files found on it
AllPics(dsk) == SelectSeq(PicFiles, LAMBDA f : IsFile(dsk, <<>>, f))

HomeDir == <<"/", "home">>
DestPath == <<"/", "home", "/", "pics">>
Pid == 7

TakenA == [date |-> [y |-> 2010, m |-> 6, d |-> 20], sec |-> 43200]
TakenB == {[has_date |-> TRUE, date |-> [date |-> [y |-> 2010, m |-> 6, d |-> 20], sec |-> 50000]],
           [has_date |-> TRUE, date |-> [date |-> [y |-> 2010, m |-> 6, d |-> 1], sec |-> 50000]],
           [has_date |-> FALSE, date |-> NoDate]}
RunStarted == [date |-> [y |-> 2010, m |-> 6, d |-> 21], sec |-> 36000]

TagsA == [has_date |-> TRUE, date |-> TakenA, cam |-> "nikcafe01"]

\* A's folder in the destination, and the a.jpg that may be there already
PrimaryA == Join(DestPath, GetDestSubfolder(TagsA))
Already == {"absent", "same", "other", "dir"}

AlreadyThere(was) ==
    CASE was = "absent" -> {}
      [] was = "same" -> {DirEntry(<<>>, PrimaryA),
                          FileEntry(<<>>, Join(PrimaryA, <<"a", ".", "jpg">>), 2, "old")}
      [] was = "other" -> {DirEntry(<<>>, PrimaryA),
                           FileEntry(<<>>, Join(PrimaryA, <<"a", ".", "jpg">>), 5, "old")}
      [] was = "dir" -> {DirEntry(<<>>, PrimaryA),
                         DirEntry(<<>>, Join(PrimaryA, <<"a", ".", "jpg">>))}

\* the ledger of an earlier import of a.jpg and a.NEF by another process
OldLedger ==
    [exists |-> TRUE,
     entries |-> {[name |-> <<"copiedfiles", ".", "5", ".", "0", ".", "log">>, kind |-> "file",
                   text |-> FileAJpg \o <<"\n">> \o FileANef \o <<"\n">>]}]

\* the program was never run, or it imported the first shot before and the
\* pictures have since been moved out of the destination; the first shot's
\* files may carry no date tag, or its a.jpg may be missing from the card
Init ==
    /\ \E was \in Already, tb \in TakenB, first \in {"dated", "undated", "nojpg"} :
          /\ first # "dated" => was = "absent"
          /\ disk = {DirEntry(<<>>, HomeDir), DirEntry(<<>>, DestPath),
                     FileEntry(<<>>, FileANef, 1, [TagsA EXCEPT !.has_date = (first # "undated")]),
                     FileEntry(<<>>, FileBJpg, 1,
                               [has_date |-> tb.has_date, date |-> tb.date, cam |-> "nikcafe01"])}
                    \cup (IF first = "nojpg" THEN {}
                          ELSE {FileEntry(<<>>, FileAJpg, 2,
                                          [TagsA EXCEPT !.has_date = (first # "undated")])})
                    \cup AlreadyThere(was)
          /\ ledger \in IF was = "absent" THEN {NoLedger, OldLedger} ELSE {NoLedger}
    /\ cwd \in {HomeDir, DestPath}
    /\ copylog = CopyLogNew(<<>>, 0, 0)
    /\ call = NoCall
    /\ pc = NoRun
    /\ plan = [error |-> "none"]
    /\ metrics = [total_seen |-> -1]
    /\ groups = <<>>
    /\ hist = NoHist

\* the paths this run handed to copylog.add, in order
AddedBy(copies) ==
    LET ok == SelectSeq(copies, LAMBDA a : a.kind = "ok") IN
    [i \in 1..Len(ok) |-> ok[i].src]

Range(seq) == {seq[i] : i \in 1..Len(seq)}

\* the with-block is left (by its end, sys.exit or an exception): __exit__ runs
LeaveScope(exit, clog, h) ==
    LET out == CopyLogExit(clog, ledger) IN
    /\ copylog' = out.clog
    /\ ledger' = out.ledger
    /\ pc' = [pc EXCEPT !.at = "ended", !.exit = exit]
    /\ hist' = h

\* history: the shots of which the last run, if its with-block was left, added
\* every member to the ledger
FullyAdded ==
    IF pc.exit \in {"", "killed"} THEN {}
    ELSE {groups[g].base_path : g \in {h \in 1..Len(groups) :
                                          Range(groups[h].files) \subseteq Range(hist.added)}}

\* history: what the last run loaded, and what it added if its with-block was left
LoadedOrAdded ==
    IF pc.exit = "" THEN {}
    ELSE copylog.copied_files
           \cup (IF pc.exit = "killed" THEN {} ELSE Range(hist.added))

\* history: whether the run that is over ran without --force through its
\* whole plan with no failed file, and then the shots it executed, the sources
\* it recorded in file_existed, and whether its plan had reached the cap
PrevRun ==
    IF pc.at = "ended" /\ pc.exit = "completed" /\ ~plan.force /\ metrics.failed = <<>>
    THEN [clean |-> TRUE,
          executed |-> {groups[g].base_path : g \in Range(plan.groups_to_copy)},
          existed |-> Range(metrics.file_existed),
          capped |-> Truthy(plan.maxpics) /\ Len(plan.groups_to_copy) >= plan.maxpics.n]
    ELSE NoPrev

\* the program starts: Metrics(), CopyPlan(...), and copy_pictures up to the
\* first schedule_copy: grouping, CopyLog.load, CopyLog.__enter__
StartRun ==
    /\ pc.at \in {"idle", "ended"}
    /\ pc.run < MaxRuns
    /\ \E force \in BOOLEAN, maxpics \in {NoMax, MaxOf(0), MaxOf(1)} :
          plan' = [CopyPlanNew(DefaultDays, RunStarted, force, maxpics) EXCEPT
                      !.start_disk_avail = 2, !.destpath = DestPath]
    /\ metrics' = [MetricsNew EXCEPT !.total_seen = Len(AllPics(disk))]
    /\ groups' = LET gs == GroupFiles(AllPics(disk), NoGroups).groups
                  IN  [i \in 1..Len(gs) |-> gs[i].fg]
    /\ LET loaded == CopyLogLoad(ledger, LogsFolder, Pid, pc.run + 1)
           entered == CopyLogEnter(loaded.clog, loaded.ledger)
       IN  /\ copylog' = entered.clog
           /\ ledger' = entered.ledger
    /\ pc' = [at |-> "schedule", i |-> 1, run |-> pc.run + 1, exit |-> ""]
    /\ hist' = [hist EXCEPT !.last = [op |-> "start"], !.added = <<>>, !.faults = 0,
                            !.fully = @ \cup FullyAdded,
                            !.mustHave = @ \cup LoadedOrAdded,
                            !.prev = PrevRun]
    /\ UNCHANGED <<disk, cwd, call>>

\* schedule_copy(metrics, copyplan, copylog, groups[g]) for the next group
ScheduleStep ==
    /\ pc.at = "schedule"
    /\ pc.i <= Len(groups)
    /\ LET r == ScheduleCopy(metrics, plan, copylog, pc.i, groups[pc.i], disk, cwd)
           last == [op |-> "schedule_copy", g |-> pc.i, outcome |-> r.outcome,
                    raised |-> r.raised]
       IN  /\ metrics' = r.metrics
           /\ plan' = r.plan
           /\ groups' = [groups EXCEPT ![pc.i] = r.fg]
           /\ IF r.raised # "none"
              THEN LeaveScope("fatal", copylog, [hist EXCEPT !.last = last])
              ELSE /\ pc' = [pc EXCEPT !.at = IF pc.i = Len(groups) THEN "confirm" ELSE "schedule",
                                       !.i = pc.i + 1]
                   /\ hist' = [hist EXCEPT !.last = last]
                   /\ UNCHANGED <<ledger, copylog>>
    /\ UNCHANGED <<disk, cwd, call>>

\* confirmOrDie("About to copy ..."): the user answers
Confirm ==
    /\ pc.at = "confirm"
    /\ \E yes \in BOOLEAN :
          IF ~yes
          THEN LeaveScope("declined", copylog, [hist EXCEPT !.last = [op |-> "confirm", yes |-> FALSE]])
          ELSE /\ pc' = [pc EXCEPT !.at = IF plan.bytes_to_copy > plan.start_disk_avail
                                          THEN "confirm_space" ELSE "copy",
                                   !.i = 1]
               /\ hist' = [hist EXCEPT !.last = [op |-> "confirm", yes |-> TRUE]]
               /\ UNCHANGED <<ledger, copylog>>
    /\ UNCHANGED <<disk, cwd, call, plan, metrics, groups>>

\* confirmOrDie("Warning! ... more than the ... available"): the user answers
ConfirmSpace ==
    /\ pc.at = "confirm_space"
    /\ \E yes \in BOOLEAN :
          IF ~yes
          THEN LeaveScope("declined", copylog,
                          [hist EXCEPT !.last = [op |-> "confirm_space", yes |-> FALSE]])
          ELSE /\ pc' = [pc EXCEPT !.at = "copy", !.i = 1]
               /\ hist' = [hist EXCEPT !.last = [op |-> "confirm_space", yes |-> TRUE]]
               /\ UNCHANGED <<ledger, copylog>>
    /\ UNCHANGED <<disk, cwd, call, plan, metrics, groups>>

\* the outcomes the copies of a group's members can have
Outcomes(dsk, files, budget) ==
    {outs \in [1..Len(files) -> {OkOutcome} \cup
                                 [kind : {"ioerror", "killed"}, left : -1..1]] :
        /\ \A i \in 1..Len(files) : outs[i].left < GetSize(dsk, <<>>, files[i])
        /\ Cardinality({i \in 1..Len(files) : outs[i].kind # "ok"}) <= budget}

\* try_copy(metrics, copyplan, copylog, group) for the next approved group;
\* when the process is interrupted during a copy, Ctrl-C unwinds through
\* __exit__, a kill does not
TryCopyStep ==
    /\ pc.at = "copy"
    /\ pc.i <= Len(plan.groups_to_copy)
    /\ LET g == plan.groups_to_copy[pc.i] IN
       \E outs \in Outcomes(disk, groups[g].files, MaxFaults - hist.faults) :
          LET r == TryCopy(metrics, plan, copylog, groups[g], disk, cwd, outs)
              last == [op |-> "try_copy", g |-> g, run |-> pc.run, before |-> disk,
                       copies |-> r.copies,
                       raised |-> r.raised, killed |-> r.killed]
              added == hist.added \o AddedBy(r.copies)
              faults == hist.faults + Cardinality({i \in 1..Len(r.copies) : r.copies[i].kind # "ok"})
              h == [hist EXCEPT !.last = last, !.added = added, !.faults = faults]
              cut == [h EXCEPT !.interrupted =
                         @ \cup {[base_path |-> groups[g].base_path, run |-> pc.run]}]
          IN  /\ disk' = r.disk
              /\ metrics' = r.metrics
              /\ IF r.killed
                 THEN \/ LeaveScope("interrupted", r.clog,
                                    [cut EXCEPT !.last.raised = "KeyboardInterrupt"])
                      \/ /\ copylog' = r.clog
                         /\ pc' = [pc EXCEPT !.at = "ended", !.exit = "killed"]
                         /\ hist' = cut
                         /\ UNCHANGED ledger
                 ELSE IF r.raised # "none"
                 THEN LeaveScope("fatal", r.clog, h)
                 ELSE /\ copylog' = r.clog
                      /\ pc' = [pc EXCEPT !.i = pc.i + 1]
                      /\ hist' = h
                      /\ UNCHANGED ledger
    /\ UNCHANGED <<cwd, call, plan, groups>>

\* the loop over groups_to_copy is over: the with-block ends
Finish ==
    /\ pc.at = "copy"
    /\ pc.i > Len(plan.groups_to_copy)
    /\ LeaveScope("completed", copylog, [hist EXCEPT !.last = [op |-> "finish"]])
    /\ UNCHANGED <<disk, cwd, call, plan, metrics, groups>>

Next == StartRun \/ ScheduleStep \/ Confirm \/ ConfirmSpace \/ TryCopyStep \/ Finish

Spec == Init /\ [][Next]_vars


(***************************************************************************)
(* Properties of the import runs.                                          *)
(***************************************************************************)
LastIs(op) == hist.last.op = op

\* the sources of the copies the last try_copy attempted
LastSources == {hist.last.copies[i].src : i \in 1..Len(hist.last.copies)}

\* the shots of which an earlier run added every member to the ledger and
\* closed it
FullyCopiedBefore == {g \in 1..Len(groups) : groups[g].base_path \in hist.fully}

FilesKept == \A e \in disk : e.kind = "file" => e \in disk'

\* C2: every copy try_copy performs goes to a path at which no file exists at
\* that moment, and no step of a run changes or removes a file that exists
C2_NoOverwrite ==
    /\ [](LastIs("try_copy") =>
             \A i \in 1..Len(hist.last.copies) : ~hist.last.copies[i].existed)
    /\ [][FilesKept]_vars

\* the first try_copy of the first run copied a member while the a.jpg that
\* was in the shot's primary folder before is still there, unchanged
C2_Witness ==
    /\ LastIs("try_copy")
    /\ \E i \in 1..Len(hist.last.copies) : hist.last.copies[i].kind = "ok"
    /\ hist.last.run = 1
    /\ hist.last.g = 1
    /\ \E e \in hist.last.before :
          e.kind = "file" /\ e.path = Join(PrimaryA, <<"a", ".", "jpg">>) /\ e \in disk

\* the shot's primary and alternate folder
PrimaryOf(g) == Join(plan.destpath, groups[g].dest_subfolder)
AlternateOf(g) == Join(plan.destpath, groups[g].dest_subfolderalt)

\* before the last try_copy, some member's path in the primary folder was a
\* directory or a file of another size than the source
Collided(g) ==
    \E i \in 1..Len(groups[g].files) :
        LET f == groups[g].files[i]
            fdest == Join(PrimaryOf(g), BaseName(f))
        IN  \/ IsDir(hist.last.before, cwd, fdest)
            \/ /\ IsFile(hist.last.before, cwd, fdest)
               /\ GetSize(hist.last.before, cwd, fdest) # GetSize(hist.last.before, cwd, f)

\* C3 (as stated): when some member's path in the primary folder is a directory
\* or a file of another size, every member try_copy copies is written into the
\* shot's alternate folder, none into the primary folder, and the alternate
\* folder is recorded in metrics.alt_folders
C3_AsWritten ==
    (LastIs("try_copy") /\ Collided(hist.last.g)) =>
        LET g == hist.last.g IN
        /\ \A i \in 1..Len(hist.last.copies) :
              hist.last.copies[i].dest
                 = Join(AlternateOf(g), BaseName(hist.last.copies[i].src))
        /\ AlternateOf(g) \in Range(metrics.alt_folders)

\* the members of the shot by what the primary folder held of them before the
\* last try_copy
CompleteIn(g) ==
    {f \in Range(groups[g].files) :
        LET fdest == Join(PrimaryOf(g), BaseName(f)) IN
        /\ IsFile(hist.last.before, cwd, fdest)
        /\ GetSize(hist.last.before, cwd, fdest) = GetSize(hist.last.before, cwd, f)}

MissingIn(g) ==
    {f \in Range(groups[g].files) :
        ~Exists(hist.last.before, cwd, Join(PrimaryOf(g), BaseName(f)))}

PartialIn(g) ==
    {f \in Range(groups[g].files) :
        LET fdest == Join(PrimaryOf(g), BaseName(f)) IN
        /\ IsFile(hist.last.before, cwd, fdest)
        /\ GetSize(hist.last.before, cwd, fdest) < GetSize(hist.last.before, cwd, f)}

\* the last step was try_copy, in a later run, for a shot during whose copying
\* an earlier run was interrupted, and the primary folder held some members
\* completely and the others not at all or in part
Recovering ==
    /\ LastIs("try_copy")
    /\ \E r \in hist.interrupted :
          r.base_path = groups[hist.last.g].base_path /\ r.run < hist.last.run
    /\ CompleteIn(hist.last.g) # {}
    /\ MissingIn(hist.last.g) \cup PartialIn(hist.last.g) # {}
    /\ CompleteIn(hist.last.g) \cup MissingIn(hist.last.g) \cup PartialIn(hist.last.g)
          = Range(groups[hist.last.g].files)

LastRanThrough == hist.last.raised = "none" /\ ~hist.last.killed

\* C4 (as stated): the run after an interrupted one copies none of the members
\* the primary folder holds completely, and copies the missing and the partial
\* ones
C4_AsWritten ==
    Recovering =>
        /\ CompleteIn(hist.last.g) \cap LastSources = {}
        /\ LastRanThrough =>
              MissingIn(hist.last.g) \cup PartialIn(hist.last.g) \subseteq LastSources

\* C4: the run after an interrupted one, when the members the primary folder
\* does not hold completely are all missing, skips the complete members
\* (recording them in file_existed when it gets to them) and copies only the
\* missing ones, into the primary folder; when some member is there in part,
\* it writes nothing into the primary folder: whatever it copies goes to the
\* shot's alternate folder, the complete members included
C4_Recovery ==
    Recovering =>
        LET g == hist.last.g IN
        IF PartialIn(g) = {}
        THEN /\ CompleteIn(g) \cap LastSources = {}
             /\ \A i \in 1..Len(hist.last.copies) :
                   hist.last.copies[i].dest
                      = Join(PrimaryOf(g), BaseName(hist.last.copies[i].src))
             /\ LastRanThrough =>
                   /\ MissingIn(g) \subseteq LastSources
                   /\ CompleteIn(g) \subseteq Range(metrics.file_existed)
        ELSE /\ \A i \in 1..Len(hist.last.copies) :
                   hist.last.copies[i].dest
                      = Join(AlternateOf(g), BaseName(hist.last.copies[i].src))
             /\ LastRanThrough => Range(groups[g].files) \subseteq LastSources

\* the run after an interrupted one found a.jpg complete and a.NEF in part in
\* the primary folder and copied a.jpg again, into the alternate folder
C4_Witness ==
    /\ Recovering
    /\ PartialIn(hist.last.g) # {}
    /\ \E i \in 1..Len(hist.last.copies) :
          /\ hist.last.copies[i].src \in CompleteIn(hist.last.g)
          /\ hist.last.copies[i].kind = "ok"

\* the text of every entry of the ledger folder is kept, or extended at its end
EntriesKept ==
    \A e \in ledger.entries :
       \E n \in ledger'.entries :
          /\ n.name = e.name
          /\ n.kind = e.kind
          /\ Len(n.text) >= Len(e.text)
          /\ SubSeq(n.text, 1, Len(e.text)) = e.text

\* C6: the set a run loads contains the set every earlier run loaded and every
\* path an earlier run added before its ledger scope was closed, and no step
\* removes or rewrites what a log file holds
C6_LedgerOnlyGrows ==
    /\ [](pc.run >= 1 => hist.mustHave \subseteq copylog.copied_files)
    /\ [][EntriesKept]_vars

\* the second run loaded a path the first run had added
C6_Witness ==
    /\ pc.run = 2
    /\ FileAJpg \in hist.mustHave
    /\ FileAJpg \in copylog.copied_files
    /\ copylog.copied_files # {}

RECURSIVE AsLines(_)
\* the text that holds these paths, one per line
AsLines(paths) ==
    IF paths = <<>> THEN <<>>
    ELSE Head(paths) \o <<"\n">> \o AsLines(Tail(paths))

\* the text of the log file of the current run
RunLogText == (CHOOSE e \in ledger.entries : e.name = copylog.logfile).text

\* C7: the ledger's handle is open from before the first add to the end of the
\* with-block, no add fails for a handle that is not open, and however the
\* block is left (completion, a declined confirmation, a fatal error of
\* schedule_copy or try_copy, Ctrl-C) the handle is flushed and closed: the
\* run's log file then holds every path added, one per line
C7_ScopedHandle ==
    /\ (pc.run >= 1 /\ pc.at # "ended") => copylog.fh = "open"
    /\ hist.added # <<>> => copylog.fh # "None"
    /\ LastIs("try_copy") =>
          hist.last.raised \notin {"Exception", "ValueError"}
    /\ (pc.at = "ended" /\ pc.exit \in {"completed", "declined", "fatal", "interrupted"}) =>
          /\ copylog.fh = "closed"
          /\ copylog.buffer = <<>>
          /\ RunLogText = AsLines(hist.added)

\* a fatal error of try_copy ended the run after a path had been added
C7_Witness ==
    /\ pc.at = "ended"
    /\ pc.exit = "fatal"
    /\ hist.added # <<>>
    /\ copylog.fh = "closed"


(***************************************************************************)
(* The grouping scenarios: copy_pictures groups a list of picture paths.   *)
(***************************************************************************)
MaxPics == 3         \* paths in the list

GroupPaths ==
    {<<"/", "100", "/", "a", ".", "jpg">>,
     <<"/", "100", "/", "a", ".", "NEF">>,
     <<"/", "100", "/", "b", ".", "jpg">>,
     <<"/", "101", "/", "a", ".", "jpg">>,
     <<"/", "100", "/", "a">>,
     <<"/", "100", "/", "a", ".", "b", ".", "jpg">>,
     <<"/", "100", "/", ".", "x">>}

GroupInit ==
    /\ disk = {}
    /\ cwd = <<>>
    /\ NoLog
    /\ IdleRun
    /\ \E picfiles \in TuplesUpTo(GroupPaths, MaxPics) :
          call = [op |-> "group_args", picfiles |-> picfiles]

\* the grouping loop of copy_pictures
GroupCall ==
    /\ call.op = "group_args"
    /\ call' = [op |-> "grouped", picfiles |-> call.picfiles,
                result |-> GroupFiles(call.picfiles, NoGroups)]
    /\ UNCHANGED <<disk, cwd, ledger, copylog>>
    /\ UNCHANGED runVars

SpecGroup == GroupInit /\ [][GroupCall]_vars

\* C11: grouping a list of paths raises nothing and gives one group per
\* distinct base path (the path without its extension: a.jpg, a.NEF and a of
\* one folder share a group, a.jpg of another folder and a.b.jpg do not);
\* each group is keyed by its members' base path and holds, in input order,
\* exactly the paths of the list with that base path, so that no group is
\* empty and every path is in exactly one group
C11_GroupingPartition ==
    call.op = "grouped" =>
        LET picfiles == call.picfiles
            gs == call.result.groups
        IN  /\ call.result.raised = "none"
            /\ \A i, j \in 1..Len(gs) : gs[i].key = gs[j].key => i = j
            /\ {gs[i].key : i \in 1..Len(gs)} = {BasePath(picfiles[k]) : k \in 1..Len(picfiles)}
            /\ \A i \in 1..Len(gs) :
                  /\ gs[i].fg.files = SelectSeq(picfiles, LAMBDA q : BasePath(q) = gs[i].key)
                  /\ gs[i].fg.files # <<>>
                  /\ gs[i].fg.base_path = gs[i].key
            /\ \A i \in 1..Len(gs) :
                  /\ <<"/", "100", "/", "a", ".", "jpg">> \in Range(gs[i].fg.files)
                        => /\ gs[i].key = <<"/", "100", "/", "a">>
                           /\ Range(gs[i].fg.files) \cap
                                 {<<"/", "101", "/", "a", ".", "jpg">>,
                                  <<"/", "100", "/", "a", ".", "b", ".", "jpg">>,
                                  <<"/", "100", "/", "b", ".", "jpg">>} = {}
                  /\ <<"/", "100", "/", "a", ".", "NEF">> \in Range(gs[i].fg.files)
                        => gs[i].key = <<"/", "100", "/", "a">>
                  /\ <<"/", "100", "/", "a", ".", "b", ".", "jpg">> \in Range(gs[i].fg.files)
                        => gs[i].key = <<"/", "100", "/", "a", ".", "b">>
                  /\ <<"/", "100", "/", ".", "x">> \in Range(gs[i].fg.files)
                        => gs[i].key = <<"/", "100", "/", ".", "x">>

\* a.jpg, b.jpg, a.NEF were grouped into a.jpg + a.NEF and b.jpg
C11_Witness ==
    /\ call.op = "grouped"
    /\ call.picfiles = << <<"/", "100", "/", "a", ".", "jpg">>,
                          <<"/", "100", "/", "b", ".", "jpg">>,
                          <<"/", "100", "/", "a", ".", "NEF">> >>
    /\ Len(call.result.groups) = 2
    /\ call.result.groups[1].fg.files = << <<"/", "100", "/", "a", ".", "jpg">>,
                                           <<"/", "100", "/", "a", ".", "NEF">> >>



(***************************************************************************)
(* Properties of the import runs: force mode.                              *)
(***************************************************************************)
\* the run has --force and the ledger it loaded holds every member of the shot
ForceLedgered(g) ==
    /\ pc.run >= 1
    /\ plan.force
    /\ Range(groups[g].files) \subseteq copylog.copied_files

\* the sources of the copies the last try_copy completed
LastCopied ==
    {hist.last.copies[i].src : i \in {k \in 1..Len(hist.last.copies) :
                                         hist.last.copies[k].kind = "ok"}}

C12_WitnessCopied ==
    /\ LastIs("try_copy")
    /\ ForceLedgered(hist.last.g)
    /\ ~Collided(hist.last.g)
    /\ MissingIn(hist.last.g) = Range(groups[hist.last.g].files)
    /\ LastCopied = Range(groups[hist.last.g].files)
    /\ Len(groups[hist.last.g].files) = 2



(***************************************************************************)
(* human_readable.  A byte count is an unbounded integer: it is held as    *)
(* [neg, limbs], limbs being its base-1024 digits, lowest first, without   *)
(* leading zeros (zero is <<0>>); floor division by 1024 drops the lowest. *)
(***************************************************************************)
MaxLimbs == 8        \* base-1024 digits of a byte count

DfSizes == <<"B", "KB", "MB", "GB", "TB", "PB", "EB">>

RECURSIVE LimbsValue(_)
\* the integer the limbs stand for
LimbsValue(limbs) ==
    IF limbs = <<>> THEN 0 ELSE Head(limbs) + 1024 * LimbsValue(Tail(limbs))

\* bytecount // 1024
FloorDiv1024(limbs) == IF Len(limbs) > 1 THEN Tail(limbs) ELSE <<0>>

\* bytecount >= 1024
AtLeast1024(limbs) == Len(limbs) > 1

RECURSIVE HrLoop(_, _, _)
\* while bytecount >= 1024 and prefix < last: bytecount //= 1024; prefix += 1
\* (prefix counts from 1 as an index into DfSizes)
HrLoop(limbs, prefix, last) ==
    IF AtLeast1024(limbs) /\ prefix < last
    THEN HrLoop(FloorDiv1024(limbs), prefix + 1, last)
    ELSE [bytecount |-> limbs, prefix |-> prefix]

\* the scaling stops one unit early, at PB
HumanReadable_StopsAtPB(n) ==
    IF n.neg THEN [kind |-> "ValueError", value |-> <<>>]
    ELSE LET r == HrLoop(n.limbs, 1, Len(DfSizes) - 1) IN
         [kind |-> "ok", value |-> StrInt(LimbsValue(r.bytecount)) \o <<DfSizes[r.prefix]>>]

\* human_readable(bytecount)
HumanReadable(n) ==
    IF n.neg THEN [kind |-> "ValueError", value |-> <<>>]
    ELSE LET r == HrLoop(n.limbs, 1, Len(DfSizes)) IN
         [kind |-> "ok", value |-> StrInt(LimbsValue(r.bytecount)) \o <<DfSizes[r.prefix]>>]

\* the byte counts of the scenarios
HrLimbs == {0, 1, 2, 1023}

HrCounts ==
    {[neg |-> sign, limbs |-> t] :
        sign \in BOOLEAN,
        t \in {u \in TuplesUpTo(HrLimbs, MaxLimbs) :
                  /\ u # <<>>
                  /\ Len(u) > 1 => u[Len(u)] # 0}}
        \ {[neg |-> TRUE, limbs |-> <<0>>]}

HrInit ==
    /\ disk = {}
    /\ cwd = <<>>
    /\ NoLog
    /\ IdleRun
    /\ \E n \in HrCounts : call = [op |-> "human_readable_args", n |-> n]

HrCall ==
    /\ call.op = "human_readable_args"
    /\ call' = [op |-> "human_readable", n |-> call.n, result |-> HumanReadable(call.n)]
    /\ UNCHANGED <<disk, cwd, ledger, copylog>>
    /\ UNCHANGED runVars

SpecHr == HrInit /\ [][HrCall]_vars

\* the smallest k with n \div 1024^k < 1024, or 6 if there is none below 6
RECURSIVE UnitIndex(_, _)
UnitIndex(n, k) == IF n < 1024 \/ k = 6 THEN k ELSE UnitIndex(n \div 1024, k + 1)

RECURSIVE Pow1024(_)
Pow1024(k) == IF k = 0 THEN 1 ELSE 1024 * Pow1024(k - 1)

\* the call was for the non-negative count with these limbs, lowest first
HrOf(limbs) == ~call.n.neg /\ call.n.limbs = limbs

\* C13: human_readable of a negative count raises ValueError; of n >= 0 it
\* returns floor(n / 1024^k) in decimal followed by the k-th of B, KB, MB, GB,
\* TB, PB, EB, k being the smallest index with a quotient below 1024, or 6:
\* 0 -> 0B, 1023 -> 1023B, 1024 -> 1KB, 2047 -> 1KB, 1024^2-1 -> 1023KB,
\* 1024^2 -> 1MB, 1024^4 -> 1TB, 1024^7 -> 1024EB
C13_HumanReadable ==
    call.op = "human_readable" =>
        LET limbs == call.n.limbs
            k == IF Len(limbs) - 1 < 6 THEN Len(limbs) - 1 ELSE 6
        IN  /\ call.n.neg <=> call.result.kind = "ValueError"
            /\ ~call.n.neg =>
                  /\ call.result.kind = "ok"
                  /\ call.result.value
                        = StrInt(LimbsValue(SubSeq(limbs, k + 1, Len(limbs)))) \o <<DfSizes[k + 1]>>
                  /\ Len(limbs) <= 3 =>
                        LET n == LimbsValue(limbs)
                            u == UnitIndex(n, 0)
                        IN  call.result.value = StrInt(n \div Pow1024(u)) \o <<DfSizes[u + 1]>>
            /\ HrOf(<<0>>) => call.result.value = <<"0", "B">>
            /\ HrOf(<<1023>>) => call.result.value = <<"1", "0", "2", "3", "B">>
            /\ HrOf(<<0, 1>>) => call.result.value = <<"1", "KB">>
            /\ HrOf(<<1023, 1>>) => call.result.value = <<"1", "KB">>
            /\ HrOf(<<1023, 1023>>) => call.result.value = <<"1", "0", "2", "3", "KB">>
            /\ HrOf(<<0, 0, 1>>) => call.result.value = <<"1", "MB">>
            /\ HrOf(<<0, 0, 0, 0, 1>>) => call.result.value = <<"1", "TB">>
            /\ HrOf(<<0, 0, 0, 0, 0, 0, 0, 1>>) =>
                  call.result.value = <<"1", "0", "2", "4", "EB">>

\* human_readable(1024^7) returned "1024EB"
C13_Witness ==
    /\ call.op = "human_readable"
    /\ HrOf(<<0, 0, 0, 0, 0, 0, 0, 1>>)
    /\ call.result = [kind |-> "ok", value |-> <<"1", "0", "2", "4", "EB">>]



(***************************************************************************)
(* Properties of the import runs: scheduling.                              *)
(***************************************************************************)
\* C14 (as stated): when a maximum shot count is configured, the number of
\* approved shots never exceeds it
C14_AsWritten ==
    (pc.run >= 1 /\ ~plan.maxpics.is_none) =>
        Len(plan.groups_to_copy) <= plan.maxpics.n

\* schedule_copy is about to be called with the cap reached
CapReached ==
    /\ pc.at = "schedule"
    /\ pc.i <= Len(groups)
    /\ ~plan.maxpics.is_none
    /\ plan.maxpics.n >= 1
    /\ Len(plan.groups_to_copy) >= plan.maxpics.n

\* the call leaves metrics, plan and shot as they are and raises nothing
SkippedSilently ==
    /\ metrics' = metrics
    /\ plan' = plan
    /\ groups' = groups
    /\ pc'.at # "ended"

\* C14 for a maximum of at least 1: the number of approved shots never exceeds
\* it, and a call of schedule_copy with the cap reached changes no counter,
\* plans nothing, sets none of the shot's fields and cannot fail, whatever the
\* ledger and the picture's tags hold
C14_PositiveCap ==
    /\ []((pc.run >= 1 /\ ~plan.maxpics.is_none /\ plan.maxpics.n >= 1) =>
             Len(plan.groups_to_copy) <= plan.maxpics.n)
    /\ [][CapReached => SkippedSilently]_vars



\* the .jpg members of the shot on the card
JpgsOf(g) == {e \in disk : e.path \in Range(groups[g].files) /\ e.path[Len(e.path)] = "jpg"}

\* schedule_copy is about to be called for a shot that neither the cap nor
\* the ledger rule skips and that has not exactly one .jpg member, or one
\* without date tag
MetadataFails ==
    /\ pc.at = "schedule"
    /\ pc.i <= Len(groups)
    /\ ~Truthy(plan.maxpics) \/ Len(plan.groups_to_copy) < plan.maxpics.n
    /\ plan.force \/ ~(Range(groups[pc.i].files) \subseteq copylog.copied_files)
    /\ \/ Cardinality(JpgsOf(pc.i)) # 1
       \/ \E e \in JpgsOf(pc.i) : ~e.data.has_date

\* the call ends the run with an error; nothing is planned, counted or copied
EndsRun ==
    /\ pc'.at = "ended"
    /\ pc'.exit = "fatal"
    /\ hist'.last.op = "schedule_copy"
    /\ hist'.last.raised # "none"
    /\ plan'.groups_to_copy = plan.groups_to_copy
    /\ metrics' = metrics
    /\ disk' = disk

\* a run that schedule_copy ended takes no further step: what follows is the
\* start of another run
RunOver ==
    (pc.at = "ended" /\ pc.exit = "fatal" /\ LastIs("schedule_copy")) =>
        (pc'.run = pc.run + 1 /\ disk' = disk)

\* C15: when the capture date of a shot that neither the cap nor the ledger
\* rule skips cannot be extracted, or the shot has not exactly one .jpg
\* member, schedule_copy raises and the run ends
\* there, before any age test: the shots after it are never scheduled (their
\* fields stay unset), no confirmation is asked, the plan is never executed
\* and no file is copied or added to the ledger in that run
C15_MetadataFailureFatal ==
    /\ [][MetadataFails => EndsRun]_vars
    /\ [][RunOver]_vars
    /\ []((LastIs("schedule_copy") /\ hist.last.raised # "none") =>
             /\ pc.at = "ended"
             /\ pc.exit = "fatal"
             /\ metrics.copied = 0
             /\ metrics.too_old = -1 \/ hist.last.g > 1
             /\ hist.added = <<>>
             /\ \A h \in (hist.last.g + 1)..Len(groups) :
                   /\ groups[h].dest_subfolder = NoPath
                   /\ groups[h].total_bytes = -1
                   /\ h \notin Range(plan.groups_to_copy))

\* the first of two shots had no date tag: the run ended in schedule_copy
\* with the second shot never scheduled
C15_Witness ==
    /\ LastIs("schedule_copy")
    /\ hist.last.raised # "none"
    /\ hist.last.g = 1
    /\ Len(groups) = 2
    /\ pc.at = "ended"
    /\ groups[2].dest_subfolder = NoPath



\* the first shot had no .jpg member: the run ended in schedule_copy
C15_WitnessNoJpg ==
    /\ LastIs("schedule_copy")
    /\ hist.last.raised = "Exception"
    /\ hist.last.g = 1
    /\ groups[1].files = <<FileANef>>
    /\ Len(groups) = 2
    /\ pc.at = "ended"



\* the capture date in the tags of the shot's .jpg member
TakenOf(g) == (CHOOSE e \in JpgsOf(g) : TRUE).data.date

\* days from the capture date of the shot to the day the run started
AgeInDays(g) == ToOrdinal(plan.started_dt.date) - ToOrdinal(TakenOf(g).date)

\* schedule_copy is about to be called for a shot that neither the cap nor
\* the ledger rule skips, whose date can be read and is outside the window
TooOldCase ==
    /\ pc.at = "schedule"
    /\ pc.i <= Len(groups)
    /\ ~Truthy(plan.maxpics) \/ Len(plan.groups_to_copy) < plan.maxpics.n
    /\ plan.force \/ ~(Range(groups[pc.i].files) \subseteq copylog.copied_files)
    /\ Cardinality(JpgsOf(pc.i)) = 1
    /\ \A e \in JpgsOf(pc.i) : e.data.has_date
    /\ AgeInDays(pc.i) > plan.lookback_days

\* the shot is not planned and too_old grows by the number of its members
CountedTooOld ==
    /\ plan' = plan
    /\ metrics'.too_old = (IF metrics.too_old = -1 THEN 0 ELSE metrics.too_old)
                             + Len(groups[pc.i].files)
    /\ metrics'.already_copied = metrics.already_copied
    /\ pc'.at # "ended"

\* C16: every planned shot has a capture date within the lookback window, its
\* primary subfolder (date and camera), its alternate subfolder (the primary
\* with a two-digit suffix) and its byte total set, and, unless the run has
\* --force, a member that is not in the set the ledger loaded; a shot the age
\* test rejects is not planned and adds the number of its members to too_old
C16_PlanMembership ==
    /\ [](pc.run >= 1 =>
             \A k \in 1..Len(plan.groups_to_copy) :
                LET g == plan.groups_to_copy[k] IN
                /\ groups[g].exif_date = TakenOf(g)
                /\ AgeInDays(g) <= plan.lookback_days
                /\ groups[g].dest_subfolder = <<"1", "0", "0", "6", "2", "0", "_", "nikcafe01">>
                /\ Len(groups[g].dest_subfolderalt) = Len(groups[g].dest_subfolder) + 3
                /\ SubSeq(groups[g].dest_subfolderalt, 1, Len(groups[g].dest_subfolder) + 1)
                      = groups[g].dest_subfolder \o <<"_">>
                /\ groups[g].total_bytes >= 1
                /\ ~plan.force => ~(Range(groups[g].files) \subseteq copylog.copied_files))
    /\ [][TooOldCase => CountedTooOld]_vars
    /\ []((LastIs("schedule_copy") /\ hist.last.outcome = "too_old") =>
             /\ hist.last.g \notin Range(plan.groups_to_copy)
             /\ metrics.too_old >= Len(groups[hist.last.g].files))

\* a run without --force planned the first shot, of which the ledger holds
\* only a.jpg, and rejected the second as too old
C16_Witness ==
    /\ pc.at = "confirm"
    /\ ~plan.force
    /\ plan.groups_to_copy = <<1>>
    /\ FileAJpg \in copylog.copied_files
    /\ FileANef \notin copylog.copied_files
    /\ metrics.too_old = 1



\* the size of a file on the card
SizeOnCard(f) == (CHOOSE e \in disk : e.path = f).size

RECURSIVE BytesOfFiles(_)
BytesOfFiles(files) ==
    IF files = <<>> THEN 0 ELSE SizeOnCard(Head(files)) + BytesOfFiles(Tail(files))

RECURSIVE BytesOfShots(_)
BytesOfShots(planned) ==
    IF planned = <<>> THEN 0
    ELSE BytesOfFiles(groups[Head(planned)].files) + BytesOfShots(Tail(planned))

\* a call of schedule_copy that plans nothing leaves the byte total as it is
SkipKeepsBytes ==
    (pc.at = "schedule" /\ pc'.run = pc.run
        /\ plan'.groups_to_copy = plan.groups_to_copy)
       => plan'.bytes_to_copy = plan.bytes_to_copy

\* C17: bytes_to_copy is the sum, over the planned shots, of the sizes of
\* their member files (3 for a.jpg + a.NEF of sizes 2 and 1), each planned
\* shot holds its own sum in total_bytes, and a call of schedule_copy that
\* skips its shot (cap, already copied, too old) does not change it
C17_ByteTotal ==
    /\ [](pc.run >= 1 =>
             /\ plan.bytes_to_copy = BytesOfShots(plan.groups_to_copy)
             /\ \A k \in 1..Len(plan.groups_to_copy) :
                   groups[plan.groups_to_copy[k]].total_bytes
                      = BytesOfFiles(groups[plan.groups_to_copy[k]].files)
             /\ plan.groups_to_copy = <<1>> => plan.bytes_to_copy \in {1, 3}
             /\ (plan.groups_to_copy = <<1>> /\ Len(groups[1].files) = 2)
                   => plan.bytes_to_copy = 3)
    /\ [][SkipKeepsBytes]_vars

\* both shots are planned, 4 bytes in all
C17_Witness ==
    /\ pc.at = "confirm"
    /\ plan.groups_to_copy = <<1, 2>>
    /\ plan.bytes_to_copy = 4

\* with the first shot planned, the second was skipped as too old and the
\* total stayed at 3
C17_WitnessSkip ==
    /\ LastIs("schedule_copy")
    /\ hist.last.outcome = "too_old"
    /\ plan.groups_to_copy = <<1>>
    /\ plan.bytes_to_copy = 3



(***************************************************************************)
(* Properties of the import runs: the ledger during a run.                 *)
(***************************************************************************)
\* the argument lists already_copied is asked about
QueryLists == TuplesUpTo(Range(PicFiles), 2)

\* a step of a run changes no answer of already_copied, and no entry of the
\* ledger folder other than the run's own log file
AddFrame ==
    pc'.run = pc.run =>
        /\ \A paths \in QueryLists :
              AlreadyCopied(copylog', paths) = AlreadyCopied(copylog, paths)
        /\ \A e \in ledger.entries : e.name # copylog.logfile => e \in ledger'.entries
        /\ \A e \in ledger'.entries :
              e.name # copylog.logfile => e \in ledger.entries

\* the ledger folder without the log file of the current run
EarlierLogs == [ledger EXCEPT !.entries = {e \in @ : e.name # copylog.logfile}]

\* C18: the paths a run adds do not enter the set already_copied consults:
\* throughout the run already_copied answers every argument list as it did
\* right after the load, so a path just added is still reported as not copied
\* unless an earlier run's log held it; only the run's own log file changes
C18_AddLeavesSet ==
    /\ [][AddFrame]_vars
    /\ [](pc.run >= 1 =>
             \A i \in 1..Len(hist.added) :
                AlreadyCopied(copylog, <<hist.added[i]>>).value
                   <=> IsTrimmedLogLine(hist.added[i], EarlierLogs))

\* both members of the first shot were copied and added, and already_copied
\* still answers false for them
C18_Witness ==
    /\ LastIs("try_copy")
    /\ hist.added = <<FileAJpg, FileANef>>
    /\ ~AlreadyCopied(copylog, <<FileAJpg, FileANef>>).value
    /\ ~AlreadyCopied(copylog, <<FileAJpg>>).value



(***************************************************************************)
(* Properties of the import runs: the copy loop.                           *)
(***************************************************************************)
\* the copies of the step's try_copy that had this outcome, in order
CopiesOfKind(kind) == SelectSeq(hist'.last.copies, LAMBDA a : a.kind = kind)

RECURSIVE LinesOfSources(_)
LinesOfSources(copies) ==
    IF copies = <<>> THEN <<>>
    ELSE Head(copies).src \o <<"\n">> \o LinesOfSources(Tail(copies))

\* the step is a call of try_copy in which a copy failed with an IOError
\* and no copy was interrupted
CopyFailed ==
    /\ pc.at = "copy"
    /\ hist'.last.op = "try_copy"
    /\ ~hist'.last.killed
    /\ CopiesOfKind("ioerror") # <<>>

\* what try_copy does then: the destinations of the failed copies, and only
\* they, are appended to failed; the sources of the completed copies, and
\* only they, are written to the ledger and counted in copied; every member
\* of the shot was either copied, tried or found existing; and the loop over
\* the approved shots goes on
FailureRecorded ==
    LET g == hist'.last.g
        failedNow == CopiesOfKind("ioerror")
        okNow == CopiesOfKind("ok")
    IN  /\ Len(metrics'.failed) = Len(metrics.failed) + Len(failedNow)
        /\ SubSeq(metrics'.failed, 1, Len(metrics.failed)) = metrics.failed
        /\ \A i \in 1..Len(failedNow) :
              LET p == metrics'.failed[Len(metrics.failed) + i] IN
              /\ p = failedNow[i].dest
              /\ p \in {Join(Join(plan.destpath, groups[g].dest_subfolder),
                              BaseName(failedNow[i].src)),
                         Join(Join(plan.destpath, groups[g].dest_subfolderalt),
                              BaseName(failedNow[i].src))}
        /\ metrics'.copied = metrics.copied + Len(okNow)
        /\ copylog'.buffer = copylog.buffer \o LinesOfSources(okNow)
        /\ hist'.last.raised = "none"
        /\ \A i \in 1..Len(groups[g].files) :
              \/ groups[g].files[i] \in {hist'.last.copies[k].src : k \in 1..Len(hist'.last.copies)}
              \/ groups[g].files[i] \in Range(metrics'.file_existed)
        /\ pc'.at = "copy"
        /\ pc'.i = pc.i + 1

\* C19: when the copy of a member fails with an IOError, try_copy appends the
\* member's destination path to metrics.failed, writes nothing to the ledger
\* and counts nothing in copied for it, raises nothing, goes on with the other
\* members of the shot, and the run goes on with the next approved shot
C19_CopyFailureNonFatal ==
    /\ [][CopyFailed => FailureRecorded]_vars
    /\ [](pc.run >= 1 =>
             /\ \A i \in 1..Len(metrics.failed) : metrics.failed[i] \notin Range(hist.added)
             /\ metrics.copied = Len(hist.added))

\* the copy of a.jpg failed, a.NEF was copied after it, and then the second
\* approved shot was copied
C19_Witness ==
    /\ LastIs("try_copy")
    /\ hist.last.g = 2
    /\ Len(metrics.failed) = 1
    /\ BaseName(metrics.failed[1]) = <<"a", ".", "jpg">>
    /\ hist.added = <<FileANef, FileBJpg>>
    /\ metrics.copied = 2



\* the folder the last try_copy copied into, as the disk was before it
FolderUsed(g) == IF Collided(g) THEN AlternateOf(g) ELSE PrimaryOf(g)

\* C20: the copy loop of try_copy never finds a destination file of another
\* size than its source, so try_copy never raises its "logic error": when
\* the loop is reached (os.makedirs did not raise), every member was, before
\* the call, either absent from the folder copied into or there with the
\* source's size (in the alternate folder, absent), whatever the destination
\* held before the run and whatever the run copied before
C20_NoLogicError ==
    LastIs("try_copy") =>
        /\ hist.last.raised # "Exception: logic error copying files"
        /\ hist.last.raised \in {"none", "FileExistsError", "KeyboardInterrupt"}
        /\ hist.last.raised # "FileExistsError" =>
              \A i \in 1..Len(groups[hist.last.g].files) :
                 LET f == groups[hist.last.g].files[i]
                     fdest == Join(FolderUsed(hist.last.g), BaseName(f))
                 IN  \/ ~IsFile(hist.last.before, cwd, fdest)
                     \/ GetSize(hist.last.before, cwd, fdest) = GetSize(hist.last.before, cwd, f)
        /\ (Collided(hist.last.g) /\ hist.last.raised # "FileExistsError") =>
              \A i \in 1..Len(groups[hist.last.g].files) :
                 ~Exists(hist.last.before, cwd,
                         Join(AlternateOf(hist.last.g), BaseName(groups[hist.last.g].files[i])))

\* the second shot of a run found, in its primary folder, the a.jpg of another
\* size that the first shot had just copied there, and was copied to its
\* alternate folder without error
C20_Witness ==
    /\ LastIs("try_copy")
    /\ hist.last.g = 2
    /\ hist.added = <<FileAJpg, FileANef, FileBJpg>>
    /\ Collided(2)
    /\ hist.last.raised = "none"
    /\ hist.last.copies[1].dest = Join(AlternateOf(2), <<"a", ".", "jpg">>)


(***************************************************************************)
(* The alternate folder of the approved shots.                             *)
(***************************************************************************)
\* the plan is made and confirmed, and the first try_copy of the run begins
FirstCopyBegins == pc.at = "copy" /\ pc.i = 1 /\ plan.groups_to_copy # <<>>

\* C21 (as stated): when the first try_copy of a run begins, the alternate
\* folder of no approved shot, destpath/dest_subfolderalt, is an existing
\* directory
C21_AsWritten ==
    FirstCopyBegins =>
        \A g \in Range(plan.groups_to_copy) : ~IsDir(disk, cwd, AlternateOf(g))

\* when the program runs in the destination directory itself, alt_folder
\* probes the folders of the destination and the alternate folder of an
\* approved shot does not exist when the first try_copy begins
C21_InDestination ==
    (FirstCopyBegins /\ cwd = plan.destpath) =>
        \A g \in Range(plan.groups_to_copy) : ~Exists(disk, cwd, AlternateOf(g))


(***************************************************************************)
(* The ledger's handle: a loaded ledger is entered, added to and left, in  *)
(* any order a caller can bring about; the folder may hold the log file of *)
(* an earlier run.                                                         *)
(***************************************************************************)
MaxAdds == 3         \* calls of add
MaxScopes == 2       \* times the ledger is entered

\* the paths handed to copylog.add
AddPaths == {FileAJpg, FileBJpg}

\* copylog = CopyLog.load(logsfolder)
AddInit ==
    /\ disk = {}
    /\ cwd = <<>>
    /\ IdleRun
    /\ \E ldg \in {NoLedger, OldLedger} :
          LET loaded == CopyLogLoad(ldg, LogsFolder, Pid, 1) IN
          /\ ledger = loaded.ledger
          /\ copylog = loaded.clog
    /\ call = [op |-> "load", adds |-> 0, scopes |-> 0]

\* copylog.__enter__()
AddEnter ==
    /\ copylog.fh # "open"
    /\ call.scopes < MaxScopes
    /\ LET entered == CopyLogEnter(copylog, ledger) IN
          /\ copylog' = entered.clog
          /\ ledger' = entered.ledger
    /\ call' = [op |-> "enter", adds |-> call.adds, scopes |-> call.scopes + 1]
    /\ UNCHANGED <<disk, cwd>>
    /\ UNCHANGED runVars

\* copylog.__exit__(...) at the end of the with-block
AddExit ==
    /\ copylog.fh = "open"
    /\ LET out == CopyLogExit(copylog, ledger) IN
          /\ copylog' = out.clog
          /\ ledger' = out.ledger
    /\ call' = [op |-> "exit", adds |-> call.adds, scopes |-> call.scopes,
                was |-> [clog |-> copylog, ledger |-> ledger]]
    /\ UNCHANGED <<disk, cwd>>
    /\ UNCHANGED runVars

\* copylog.add(path)
AddCall ==
    /\ call.adds < MaxAdds
    /\ \E path \in AddPaths :
          LET r == CopyLogAdd(copylog, path) IN
          /\ copylog' = r.clog
          /\ call' = [op |-> "add", adds |-> call.adds + 1, scopes |-> call.scopes,
                      path |-> path, raised |-> r.raised,
                      was |-> [clog |-> copylog, ledger |-> ledger]]
    /\ UNCHANGED <<disk, cwd, ledger>>
    /\ UNCHANGED runVars

AddNext == AddEnter \/ AddExit \/ AddCall

SpecAdd == AddInit /\ [][AddNext]_vars

\* what the folder's file of this name holds once the handle's buffer is
\* written out: its text, and for the ledger's own log file what the open
\* handle still buffers
WrittenTo(clog, ldg, name) ==
    LET onDisk == IF \E e \in ldg.entries : e.name = name
                  THEN (CHOOSE e \in ldg.entries : e.name = name).text
                  ELSE <<>>
    IN  IF name = clog.logfile THEN onDisk \o clog.buffer ELSE onDisk

\* the names of the entries of the two folders
NamesIn(ldg, was) == {e.name : e \in ldg.entries \cup was.entries}

\* C22: add on a ledger whose handle is not open (never entered, or released
\* by the scope's exit) fails with an error and appends nothing to any log
\* file; add on an acquired ledger appends exactly the path and a newline to
\* the run's own log file and to no other file; what was added is in the
\* run's log file when the scope is left
C22_AddRequiresAcquired ==
    /\ call.op = "add" =>
          /\ call.was.clog.fh # "open" =>
                /\ call.raised # "none"
                /\ ledger = call.was.ledger
                /\ copylog = call.was.clog
          /\ call.was.clog.fh = "open" =>
                /\ call.raised = "none"
                /\ copylog.fh = "open"
                /\ WrittenTo(copylog, ledger, copylog.logfile)
                      = WrittenTo(call.was.clog, call.was.ledger, copylog.logfile)
                           \o call.path \o <<"\n">>
                /\ \A name \in NamesIn(ledger, call.was.ledger) \ {copylog.logfile} :
                      WrittenTo(copylog, ledger, name)
                         = WrittenTo(call.was.clog, call.was.ledger, name)
                /\ {e.name : e \in ledger.entries} = {e.name : e \in call.was.ledger.entries}
    /\ call.op = "exit" =>
          /\ copylog.buffer = <<>>
          /\ \A name \in NamesIn(ledger, call.was.ledger) :
                WrittenTo(copylog, ledger, name)
                   = WrittenTo(call.was.clog, call.was.ledger, name)

\* add failed on a ledger released by the scope's exit, whose log file holds
\* the path added while it was acquired; the log of the earlier run is as it was
C22_Witness ==
    /\ call.op = "add"
    /\ call.was.clog.fh = "closed"
    /\ call.raised = "ValueError"
    /\ WrittenTo(copylog, ledger, copylog.logfile) = FileAJpg \o <<"\n">>
    /\ OldLedger.entries \subseteq ledger.entries

\* add failed on a ledger that was never entered
C22_WitnessNeverEntered ==
    /\ call.op = "add"
    /\ call.was.clog.fh = "None"
    /\ call.raised = "Exception"
    /\ ledger.entries = OldLedger.entries

\* the second add on an acquired ledger
C22_WitnessAcquired ==
    /\ call.op = "add"
    /\ call.raised = "none"
    /\ copylog.buffer = FileAJpg \o <<"\n">> \o FileBJpg \o <<"\n">>


\* C23 (as stated): a shot marked for its alternate folder is never given the
\* alternate folder of an earlier marked shot of the same run: creating the
\* folder does not fail on a folder this run has itself created and recorded
\* in metrics.alt_folders, and no folder is recorded there twice
C23_AsWritten ==
    (LastIs("try_copy") /\ Collided(hist.last.g)) =>
        LET alt == AlternateOf(hist.last.g) IN
        /\ ~(hist.last.raised = "FileExistsError" /\ alt \in Range(metrics.alt_folders))
        /\ Cardinality({i \in 1..Len(metrics.alt_folders) : metrics.alt_folders[i] = alt}) <= 1


(***************************************************************************)
(* The accounting of a run's outcomes.                                     *)
(***************************************************************************)
\* try_copy has returned normally for the first shots of the plan, or for
\* all of them and the run is over
ReturnedNormally ==
    /\ \/ pc.at = "copy"
       \/ pc.at = "ended" /\ pc.exit = "completed"
    /\ pc.i > 1

\* the shots try_copy has been executed for, and their member files
ExecutedShots == {plan.groups_to_copy[k] : k \in 1..(pc.i - 1)}
ExecutedFiles == UNION {Range(groups[g].files) : g \in ExecutedShots}

RECURSIVE CountFiles(_)
CountFiles(shots) ==
    IF shots = {} THEN 0
    ELSE LET g == CHOOSE x \in shots : TRUE IN
         Len(groups[g].files) + CountFiles(shots \ {g})

NoRepeats(seq) == Cardinality(Range(seq)) = Len(seq)

\* the member files that are neither added to the ledger nor recorded as
\* already there
NotCopiedNorThere == (ExecutedFiles \ Range(hist.added)) \ Range(metrics.file_existed)

\* fdest is the place of a member f in the primary or alternate folder of its shot
IsDestOf(fdest, f) ==
    \E g \in ExecutedShots :
        /\ f \in Range(groups[g].files)
        /\ fdest \in {Join(PrimaryOf(g), BaseName(f)), Join(AlternateOf(g), BaseName(f))}

\* C24: after try_copy has returned normally for some approved shots, each of
\* their member files is counted in exactly one outcome - copied (and then
\* added to the ledger), recorded in file_existed, or recorded in failed by
\* its destination - so copied + len(file_existed) + len(failed) is the
\* number of member files executed; and the lines the run has appended to
\* its log are exactly the sources counted as copied, in order
C24_OutcomeAccounting ==
    ReturnedNormally =>
        /\ metrics.copied + Len(metrics.file_existed) + Len(metrics.failed)
              = CountFiles(ExecutedShots)
        /\ metrics.copied = Len(hist.added)
        /\ NoRepeats(hist.added) /\ NoRepeats(metrics.file_existed)
        /\ Range(hist.added) \cap Range(metrics.file_existed) = {}
        /\ Range(hist.added) \cup Range(metrics.file_existed) \subseteq ExecutedFiles
        /\ Len(metrics.failed) = Cardinality(NotCopiedNorThere)
        /\ \A i \in 1..Len(metrics.failed) :
              \E f \in NotCopiedNorThere : IsDestOf(metrics.failed[i], f)
        /\ \A f \in NotCopiedNorThere :
              \E i \in 1..Len(metrics.failed) : IsDestOf(metrics.failed[i], f)
        /\ WrittenTo(copylog, ledger, copylog.logfile) = AsLines(hist.added)

\* a run is over in which try_copy returned normally for both shots: one
\* member was copied, one was there with the source's size, one failed
C24_Witness ==
    /\ pc.at = "ended" /\ pc.exit = "completed"
    /\ Cardinality(ExecutedShots) = 2
    /\ metrics.copied = 1
    /\ Len(metrics.file_existed) = 1
    /\ Len(metrics.failed) = 1
    /\ RunLogText = AsLines(hist.added)


(***************************************************************************)
(* A run after a run that went through.                                    *)
(***************************************************************************)
\* this run is without --force and follows a run without --force that
\* executed its whole plan with no failed file and no fatal error
AfterCleanRun == pc.run >= 2 /\ hist.prev.clean /\ ~plan.force

\* schedule_copy has been called for every shot of the card
PlanMade == pc.at \in {"confirm", "confirm_space", "copy"}

\* the shots the run before executed, and those of them of which it recorded
\* a member as already there with the source's size that no log of the
\* ledger holds
ExecutedBefore == {g \in 1..Len(groups) : groups[g].base_path \in hist.prev.executed}
ExistedBefore ==
    {g \in ExecutedBefore :
        (Range(groups[g].files) \cap hist.prev.existed) \ copylog.copied_files # {}}

\* C25 (as stated): the run after a run that went through approves no shot:
\* groups_to_copy is empty and bytes_to_copy is 0
C25_AsWritten ==
    AfterCleanRun => (plan.groups_to_copy = <<>> /\ plan.bytes_to_copy = 0)

\* C25: the run after a run that went through approves no shot of which the
\* run before copied every member.  It does approve again a shot of which
\* the run before recorded a member as already there with the source's size,
\* unless an earlier run had added that member to the ledger, and it approves
\* shots the run before left out because its cap was reached.  For a shot the run before executed,
\* it copies nothing and adds nothing to the ledger: every member is recorded
\* in file_existed; when the run before was not capped it copies nothing at all
C25_Convergence ==
    AfterCleanRun =>
        /\ \A g \in Range(plan.groups_to_copy) :
              \/ g \in ExistedBefore
              \/ g \notin ExecutedBefore /\ hist.prev.capped
        /\ (PlanMade /\ ~Truthy(plan.maxpics)) =>
              ExistedBefore \subseteq Range(plan.groups_to_copy)
        /\ plan.groups_to_copy = <<>> => plan.bytes_to_copy = 0
        /\ (LastIs("try_copy") /\ hist.last.g \in ExecutedBefore) =>
              /\ hist.last.copies = <<>>
              /\ hist.last.raised = "none"
              /\ Range(groups[hist.last.g].files) \subseteq Range(metrics.file_existed)
        /\ Range(hist.added) \cap UNION {Range(groups[g].files) : g \in ExecutedBefore} = {}
        /\ ~hist.prev.capped => (hist.added = <<>> /\ metrics.copied = 0)

\* the first run found a.jpg in the shot's folder with the source's size and
\* copied a.NEF; the second run approved the shot again and try_copy found
\* both members there
C25_Witness ==
    /\ AfterCleanRun
    /\ LastIs("try_copy")
    /\ hist.last.g \in ExistedBefore
    /\ hist.prev.existed = {FileAJpg}
    /\ metrics.file_existed = <<FileAJpg, FileANef>>
    /\ plan.bytes_to_copy = 3

\* the second run, after a first run that copied every member of every shot
\* it saw, has an empty plan
C25_WitnessEmptyPlan ==
    /\ AfterCleanRun
    /\ PlanMade
    /\ Cardinality(hist.prev.executed) = 2
    /\ hist.prev.existed = {}
    /\ plan.groups_to_copy = <<>>
    /\ metrics.already_copied = 3


====
